---- MODULE Spec2Model ----
(***************************************************************************)
(* Model of RecipeServer2: the recipe scraping / nutrition estimation     *)
(* pipeline (app/services/scraper_service.py,                              *)
(* app/services/nutrition_service.py, the /api/scrape route), the recipe   *)
(* and meal-plan services and their routes and views, and                  *)
(* database.get_db_session.                                                *)
(*                                                                         *)
(* Strings are sequences of one-character strings, so that strip, split,   *)
(* startswith, lower, join and float() are computed, not assumed.          *)
(* Floats are fixed-point numbers counted in tenths (1.0 is 10): float()   *)
(* is modelled for a sign, digits and a decimal point (no exponent, inf or *)
(* nan), and gram amounts are kept to a tenth of a gram.  Whitespace is    *)
(* the space and the tab.                                                  *)
(***************************************************************************)
EXTENDS Integers, Sequences, FiniteSets, TLC

VARIABLES
    pc,            \* position of the /api/scrape request
    payload,       \* the JSON body of the request
    url,           \* the argument of ScraperService._scrape
    downloaded,    \* result of trafilatura.fetch_url
    text,          \* result of trafilatura.extract, as the list text.splitlines()
    fetchCalls,    \* number of calls of trafilatura.fetch_url
    extractCalls,  \* number of calls of trafilatura.extract
    parseCalls,    \* number of calls of _parse_extracted_text
    lines,         \* _parse_extracted_text: the stripped non-blank lines
    idx,           \* index in lines of the next line of the for loop
    title, description, ingredients, instructions,
    prep_time, cook_time, servings,
    section,       \* the section mode
    error,         \* message of the ValueError raised, "" when none
    result,        \* the dict returned by _parse_extracted_text
    response,      \* the HTTP response of the route
    ingLine,       \* _parse_ingredient: the argument, with the parts it was built from
    ingOut,        \* _parse_ingredient: the record returned
    nutIn,         \* calculate_nutrition: the ingredient list
    nutOut,        \* calculate_nutrition: the totals returned or the error raised
    nutNorm,       \* calculate_nutrition: the local normalised
    lookName,      \* _lookup_profile: the argument
    lookOut,       \* _lookup_profile: the profile returned
    nutrition_db,  \* the class attribute NutritionService.NUTRITION_DB
    unit_to_grams, \* the class attribute NutritionService.UNIT_TO_GRAMS
    calls,         \* the frames of the calls of calculate_nutrition in progress
    mpPc,          \* position of the meal-plan request
    mpReq,         \* the meal-plan request: create or update, the id, the JSON body
    mpStore,       \* the committed rows of the table meal_plans
    mpObj,         \* the MealPlan object the session holds, not yet committed
    mpError,       \* message of the ValueError raised, "" when none
    mpResponse,    \* the HTTP response of the meal-plan route
    rcPc,          \* position of the create-recipe request or call
    rcReq,         \* how create_recipe is reached and the payload
    rcStore,       \* the committed rows of recipes, ingredients and nutrition_info
    rcObj,         \* the objects the session holds, not yet committed
    rcError,       \* message of the ValueError raised, "" when none
    rcResponse,    \* the HTTP response of the create-recipe route
    stRecipes,     \* the committed rows of the table recipes
    stPlans,       \* the committed rows of the table meal_plans
    stLinks,       \* the committed rows of the table meal_plan_recipe, in insertion order
    stDirty,       \* the MealPlan objects changed in the session and not yet committed
    stCalls,       \* number of service calls made
    stLast,        \* the last service call and what it returned
    stDays,        \* data["days"] of the last get_meal_plan_with_recipes
    wbPlans,       \* the views: the committed rows of the table meal_plans
    wbLinks,       \* the views: the committed rows of the table meal_plan_recipe
    wbLists,       \* the committed rows of the table shopping_lists
    wbItems,       \* the committed rows of the table shopping_list_items
    wbRequests,    \* number of requests answered
    wbLast,        \* the form of the last request and the message flashed
    dbPc,          \* position of the call of get_db_session
    dbAttempt,     \* get_db_session: the loop variable attempt
    dbDelay,       \* get_db_session: retry_delay, in seconds
    dbEngine,      \* the global _engine: 0 for None, else the number of the engine
    dbBuilt,       \* number of engines created so far
    dbSlept,       \* the waits of the call, in seconds
    dbError,       \* the error of the last attempt that failed
    dbSession,     \* the engine of the session returned, 0 when none
    dbCalls        \* number of calls of get_db_session

scrapeVars == <<pc, payload, url, downloaded, text, fetchCalls, extractCalls, parseCalls,
                lines, idx, title, description, ingredients, instructions,
                prep_time, cook_time, servings, section, error, result, response>>
ingVars == <<ingLine, ingOut>>
nutVars == <<nutIn, nutOut, nutNorm>>
lookVars == <<lookName, lookOut>>
callVars == <<nutrition_db, unit_to_grams, calls>>
mealVars == <<mpPc, mpReq, mpStore, mpObj, mpError, mpResponse>>
recipeVars == <<rcPc, rcReq, rcStore, rcObj, rcError, rcResponse>>
storeVars == <<stRecipes, stPlans, stLinks, stDirty, stCalls, stLast, stDays>>
webVars == <<wbPlans, wbLinks, wbLists, wbItems, wbRequests, wbLast>>
sessionVars == <<dbPc, dbAttempt, dbDelay, dbEngine, dbBuilt, dbSlept, dbError, dbSession, dbCalls>>

\* what a scrape request, a call of _parse_ingredient and a call of
\* calculate_nutrition leave alone
besideScrape == <<ingVars, nutVars, lookVars, callVars, mealVars, recipeVars, storeVars, webVars, sessionVars>>
besideIngredient == <<scrapeVars, nutVars, lookVars, callVars, mealVars, recipeVars, storeVars, webVars, sessionVars>>
besideNutrition == <<scrapeVars, ingVars, lookVars, callVars, mealVars, recipeVars, storeVars, webVars, sessionVars>>
besideLookup == <<scrapeVars, ingVars, nutVars, callVars, mealVars, recipeVars, storeVars, webVars, sessionVars>>
besideCalls == <<scrapeVars, ingVars, nutVars, lookVars, mealVars, recipeVars, storeVars, webVars, sessionVars>>
besideMeal == <<scrapeVars, ingVars, nutVars, lookVars, callVars, recipeVars, storeVars, webVars, sessionVars>>

besideRecipe == <<scrapeVars, ingVars, nutVars, lookVars, callVars, mealVars, storeVars, webVars, sessionVars>>
besideStore == <<scrapeVars, ingVars, nutVars, lookVars, callVars, mealVars, recipeVars, webVars, sessionVars>>
besideWeb == <<scrapeVars, ingVars, nutVars, lookVars, callVars, mealVars, recipeVars, storeVars, sessionVars>>
besideSession == <<scrapeVars, ingVars, nutVars, lookVars, callVars, mealVars, recipeVars, storeVars, webVars>>

vars == <<scrapeVars, ingVars, nutVars, lookVars, callVars, mealVars, recipeVars, storeVars, webVars, sessionVars>>

(***************************************************************************)
(* Bounds of the model.                                                    *)
(***************************************************************************)
\* longest extracted text, in lines
MaxLines == 4
\* most tokens of an ingredient line
MaxTokens == 3
\* longest ingredient list given to the nutrition estimator
MaxIngredients == 2
\* most lines after the title of a text made of section headers and content lines
MaxSectionLines == 6
\* most parts of an ingredient name
MaxNameParts == 3
\* most service calls made through one session
MaxCalls == 2
\* most requests made to the two views
MaxRequests == 2
\* most calls of get_db_session
MaxSessions == 3

(***************************************************************************)
(* Python values: None, str, int, float (in tenths), and a missing dict    *)
(* key.  Every value has the same three fields.                            *)
(***************************************************************************)
PyNone == [t |-> "none", s |-> <<>>, n |-> 0]
PyAbsent == [t |-> "absent", s |-> <<>>, n |-> 0]
PyStr(chars) == [t |-> "str", s |-> chars, n |-> 0]
PyInt(k) == [t |-> "int", s |-> <<>>, n |-> k]
PyFloat(tenths) == [t |-> "float", s |-> <<>>, n |-> tenths]
\* a datetime at midnight, as the number yyyymmdd
PyDate(yyyymmdd) == [t |-> "date", s |-> <<>>, n |-> yyyymmdd]

\* bool(v)
Truthy(v) ==
    CASE v.t = "none" -> FALSE
      [] v.t = "absent" -> FALSE
      [] v.t = "str" -> v.s # <<>>
      [] OTHER -> v.n # 0

(***************************************************************************)
(* Characters and the str methods the services call.                       *)
(***************************************************************************)
Whitespace == {" ", "\t"}
Digit == {"0", "1", "2", "3", "4", "5", "6", "7", "8", "9"}

DigitVal(c) ==
    CASE c = "0" -> 0 [] c = "1" -> 1 [] c = "2" -> 2 [] c = "3" -> 3 [] c = "4" -> 4
      [] c = "5" -> 5 [] c = "6" -> 6 [] c = "7" -> 7 [] c = "8" -> 8 [] c = "9" -> 9

DigitChar(k) ==
    CASE k = 0 -> "0" [] k = 1 -> "1" [] k = 2 -> "2" [] k = 3 -> "3" [] k = 4 -> "4"
      [] k = 5 -> "5" [] k = 6 -> "6" [] k = 7 -> "7" [] k = 8 -> "8" [] k = 9 -> "9"

LowerChar(c) ==
    CASE c = "A" -> "a" [] c = "B" -> "b" [] c = "C" -> "c" [] c = "D" -> "d"
      [] c = "E" -> "e" [] c = "F" -> "f" [] c = "G" -> "g" [] c = "H" -> "h"
      [] c = "I" -> "i" [] c = "J" -> "j" [] c = "K" -> "k" [] c = "L" -> "l"
      [] c = "M" -> "m" [] c = "N" -> "n" [] c = "O" -> "o" [] c = "P" -> "p"
      [] c = "Q" -> "q" [] c = "R" -> "r" [] c = "S" -> "s" [] c = "T" -> "t"
      [] c = "U" -> "u" [] c = "V" -> "v" [] c = "W" -> "w" [] c = "X" -> "x"
      [] c = "Y" -> "y" [] c = "Z" -> "z"
      [] OTHER -> c

\* str.lower()
Lower(s) == [i \in 1..Len(s) |-> LowerChar(s[i])]

\* str.startswith(prefix)
StartsWith(s, prefix) == Len(s) >= Len(prefix) /\ SubSeq(s, 1, Len(prefix)) = prefix

\* key in name
Contains(s, key) ==
    \E i \in 0..(Len(s) - Len(key)) : SubSeq(s, i + 1, i + Len(key)) = key

\* str.lstrip(chars)
RECURSIVE LStripChars(_, _)
LStripChars(s, chars) ==
    IF s # <<>> /\ s[1] \in chars THEN LStripChars(Tail(s), chars) ELSE s

\* str.rstrip(chars)
RECURSIVE RStripChars(_, _)
RStripChars(s, chars) ==
    IF s # <<>> /\ s[Len(s)] \in chars
    THEN RStripChars(SubSeq(s, 1, Len(s) - 1), chars) ELSE s

\* str.strip()
Strip(s) == RStripChars(LStripChars(s, Whitespace), Whitespace)

\* the first token of s (s does not start with whitespace)
RECURSIVE FirstToken(_)
FirstToken(s) ==
    IF s = <<>> \/ s[1] \in Whitespace THEN <<>> ELSE <<s[1]>> \o FirstToken(Tail(s))

\* str.split()
RECURSIVE Split(_)
Split(s) ==
    LET t == LStripChars(s, Whitespace)
    IN IF t = <<>> THEN <<>>
       ELSE LET tok == FirstToken(t)
            IN <<tok>> \o Split(SubSeq(t, Len(tok) + 1, Len(t)))

\* sep.join(parts)
RECURSIVE Join(_, _)
Join(parts, sep) ==
    IF parts = <<>> THEN <<>>
    ELSE IF Len(parts) = 1 THEN parts[1]
    ELSE parts[1] \o sep \o Join(Tail(parts), sep)

\* the integer written by a string of digits
RECURSIVE DigitsValue(_)
DigitsValue(s) ==
    IF s = <<>> THEN 0
    ELSE DigitsValue(SubSeq(s, 1, Len(s) - 1)) * 10 + DigitVal(s[Len(s)])

\* float(token): a sign, digits and at most one decimal point; the value in tenths,
\* PyNone for the ValueError
ParseFloat(tok) ==
    LET signed == tok # <<>> /\ tok[1] \in {"+", "-"}
        body == IF signed THEN Tail(tok) ELSE tok
        dots == {i \in 1..Len(body) : body[i] = "."}
        dot == IF dots = {} THEN Len(body) + 1 ELSE CHOOSE i \in dots : TRUE
        ip == SubSeq(body, 1, dot - 1)
        fp == SubSeq(body, dot + 1, Len(body))
        ok == /\ Cardinality(dots) <= 1
              /\ \A i \in 1..Len(ip) : ip[i] \in Digit
              /\ \A i \in 1..Len(fp) : fp[i] \in Digit
              /\ Len(ip) + Len(fp) > 0
        mag == DigitsValue(ip) * 10 + (IF fp = <<>> THEN 0 ELSE DigitVal(fp[1]))
    IN IF ~ok THEN PyNone
       ELSE PyFloat(IF signed /\ tok[1] = "-" THEN 0 - mag ELSE mag)

(***************************************************************************)
(* ScraperService                                                          *)
(***************************************************************************)
\* the character class of INGREDIENT_PATTERN as the source file holds it: '-' and
\* the three characters of a mis-decoded bullet
BulletChars == {"-", "a-circumflex", "euro-sign", "cent-sign"}

\* faulty variant: the bullet marker is left on the line
KeepBullet(line) == line

\* INGREDIENT_PATTERN.sub("", line)
StripBullet(line) ==
    IF line # <<>> /\ line[1] \in BulletChars
    THEN LStripChars(Tail(line), Whitespace) ELSE line

\* faulty variant: no fallback when no name token remains
IngredientNameNoFallback(name_tokens, unit, line) == Join(name_tokens, <<" ">>)

\* faulty variant: the fallback is the line even when there is a unit
IngredientNameLineFirst(name_tokens, unit, line) ==
    IF name_tokens # <<>> THEN Join(name_tokens, <<" ">>) ELSE line

\* name = " ".join(name_tokens) if name_tokens else (unit or line)
IngredientName(name_tokens, unit, line) ==
    IF name_tokens # <<>> THEN Join(name_tokens, <<" ">>)
    ELSE IF Truthy(unit) THEN unit.s ELSE line

\* faulty variant: the leading digits of the token are taken as the number
LeadingNumber(tok) ==
    LET digits == LStripChars(tok, Digit)
        head == SubSeq(tok, 1, Len(tok) - Len(digits))
    IN IF head = <<>> THEN PyNone ELSE PyFloat(DigitsValue(head) * 10)

\* amount = float(tokens[0])
TokenAmount(tok) == ParseFloat(tok)

\* ScraperService._parse_ingredient
ParseIngredient(line0) ==
    LET line == StripBullet(line0)
        tokens == Split(line)
    IN IF tokens = <<>>
       THEN [name |-> PyStr(line), amount |-> PyNone, unit |-> PyNone]
       ELSE LET amount == TokenAmount(tokens[1])
                parsed == amount.t # "none"
                after == IF parsed THEN Tail(tokens) ELSE tokens
                unit == IF parsed /\ after # <<>> THEN PyStr(after[1]) ELSE PyNone
                name_tokens == IF parsed /\ after # <<>> THEN Tail(after) ELSE after
            IN [name |-> PyStr(IngredientName(name_tokens, unit, line)),
                amount |-> amount, unit |-> unit]

\* ScraperService._normalise_instruction
NormaliseInstruction(line) == LStripChars(line, Digit \cup {".", "-", ")", " "})

\* ScraperService._extract_number: the first run of digits, as an int
ExtractNumber(s) ==
    LET starts == {i \in 1..Len(s) : s[i] \in Digit}
    IN IF starts = {} THEN PyNone
       ELSE LET first == CHOOSE i \in starts : \A j \in starts : i <= j
                stop == CHOOSE j \in first..Len(s) :
                            /\ \A k \in first..j : s[k] \in Digit
                            /\ (j = Len(s) \/ s[j + 1] \notin Digit)
            IN PyInt(DigitsValue(SubSeq(s, first, stop)))

(***************************************************************************)
(* NutritionService.  Profiles are per 100 g, in tenths; a conversion      *)
(* factor is the fraction num/den; totals are counted in hundredths.       *)
(***************************************************************************)
NUTRITION_DB ==
    << [key |-> <<"f", "l", "o", "u", "r">>,
        profile |-> [calories |-> 3640, protein |-> 100, carbs |-> 760, fat |-> 10, sugar |-> 3, sodium |-> 20, fiber |-> 27]],
       [key |-> <<"s", "u", "g", "a", "r">>,
        profile |-> [calories |-> 3870, protein |-> 0, carbs |-> 1000, fat |-> 0, sugar |-> 1000, sodium |-> 10, fiber |-> 0]],
       [key |-> <<"b", "u", "t", "t", "e", "r">>,
        profile |-> [calories |-> 7170, protein |-> 9, carbs |-> 1, fat |-> 810, sugar |-> 1, sodium |-> 110, fiber |-> 0]],
       [key |-> <<"e", "g", "g">>,
        profile |-> [calories |-> 1550, protein |-> 130, carbs |-> 11, fat |-> 110, sugar |-> 11, sodium |-> 1240, fiber |-> 0]],
       [key |-> <<"m", "i", "l", "k">>,
        profile |-> [calories |-> 420, protein |-> 34, carbs |-> 50, fat |-> 10, sugar |-> 50, sodium |-> 440, fiber |-> 0]],
       [key |-> <<"o", "i", "l">>,
        profile |-> [calories |-> 8840, protein |-> 0, carbs |-> 0, fat |-> 1000, sugar |-> 0, sodium |-> 0, fiber |-> 0]],
       [key |-> <<"s", "a", "l", "t">>,
        profile |-> [calories |-> 0, protein |-> 0, carbs |-> 0, fat |-> 0, sugar |-> 0, sodium |-> 387580, fiber |-> 0]] >>

UNIT_TO_GRAMS ==
    << [unit |-> <<"g">>, num |-> 1, den |-> 1],
       [unit |-> <<"g", "r", "a", "m">>, num |-> 1, den |-> 1],
       [unit |-> <<"g", "r", "a", "m", "s">>, num |-> 1, den |-> 1],
       [unit |-> <<"k", "g">>, num |-> 1000, den |-> 1],
       [unit |-> <<"m", "g">>, num |-> 1, den |-> 1000],
       [unit |-> <<"o", "z">>, num |-> 283495, den |-> 10000],
       [unit |-> <<"o", "u", "n", "c", "e">>, num |-> 283495, den |-> 10000],
       [unit |-> <<"l", "b">>, num |-> 453592, den |-> 1000],
       [unit |-> <<"p", "o", "u", "n", "d">>, num |-> 453592, den |-> 1000],
       [unit |-> <<"t", "s", "p">>, num |-> 42, den |-> 10],
       [unit |-> <<"t", "e", "a", "s", "p", "o", "o", "n">>, num |-> 42, den |-> 10],
       [unit |-> <<"t", "b", "s", "p">>, num |-> 143, den |-> 10],
       [unit |-> <<"t", "a", "b", "l", "e", "s", "p", "o", "o", "n">>, num |-> 143, den |-> 10],
       [unit |-> <<"c", "u", "p">>, num |-> 120, den |-> 1],
       [unit |-> <<"m", "l">>, num |-> 1, den |-> 1],
       [unit |-> <<"l">>, num |-> 1000, den |-> 1],
       [unit |-> <<"w", "h", "o", "l", "e">>, num |-> 50, den |-> 1],
       [unit |-> <<"u", "n", "i", "t">>, num |-> 50, den |-> 1] >>

\* the keys of the tuple DEFAULT_KEYS; its order only orders the keys of the result
DEFAULT_KEYS == {"calories", "protein", "carbs", "fat", "sugar", "sodium", "fiber"}

ZeroProfile == [key \in DEFAULT_KEYS |-> 0]

\* the decimal digits of k >= 0
RECURSIVE NatToChars(_)
NatToChars(k) ==
    IF k < 10 THEN <<DigitChar(k)>> ELSE NatToChars(k \div 10) \o <<DigitChar(k % 10)>>

\* str(v)
PyToStr(v) ==
    LET mag == IF v.n < 0 THEN 0 - v.n ELSE v.n
        sign == IF v.n < 0 THEN <<"-">> ELSE <<>>
    IN CASE v.t = "str" -> v.s
         [] v.t = "int" -> sign \o NatToChars(mag)
         [] v.t = "float" -> sign \o NatToChars(mag \div 10) \o <<".">> \o NatToChars(mag % 10)
         [] OTHER -> <<"N", "o", "n", "e">>

\* float(v): the value in tenths, PyNone for the ValueError
PyToFloat(v) ==
    CASE v.t = "int" -> PyFloat(v.n * 10)
      [] v.t = "float" -> v
      [] v.t = "str" -> ParseFloat(Strip(v.s))
      [] OTHER -> PyNone

\* item.get(field, default)
DictGet(value, default) == IF value.t = "absent" THEN default ELSE value

\* faulty variant: float(item.get("amount", 1.0)), without the "or 1.0"
NormaliseItemNoDefault(item) ==
    IF item.kind = "str"
    THEN [ok |-> TRUE, name |-> Lower(item.str), amount |-> 10,
          unit |-> <<"u", "n", "i", "t">>]
    ELSE LET amount == PyToFloat(DictGet(item.amount, PyFloat(10)))
         IN [ok |-> amount.t = "float",
             name |-> Lower(PyToStr(DictGet(item.name, PyStr(<<>>)))),
             amount |-> amount.n,
             unit |-> Lower(PyToStr(DictGet(item.unit, PyStr(<<"g">>))))]

\* faulty variant: a bare string is taken as one gram
NormaliseItemBareAsGram(item) ==
    IF item.kind = "str"
    THEN [ok |-> TRUE, name |-> Lower(item.str), amount |-> 10, unit |-> <<"g">>]
    ELSE LET given == DictGet(item.amount, PyFloat(10))
             amount == PyToFloat(IF Truthy(given) THEN given ELSE PyFloat(10))
         IN [ok |-> amount.t = "float",
             name |-> Lower(PyToStr(DictGet(item.name, PyStr(<<>>)))),
             amount |-> amount.n,
             unit |-> Lower(PyToStr(DictGet(item.unit, PyStr(<<"g">>))))]

\* one turn of the loop of _normalise_ingredients: a NormalisedIngredient, or
\* ok = FALSE when float() raises
NormaliseItem(item) ==
    IF item.kind = "str"
    THEN [ok |-> TRUE, name |-> Lower(item.str), amount |-> 10,
          unit |-> <<"u", "n", "i", "t">>]
    ELSE LET given == DictGet(item.amount, PyFloat(10))
             amount == PyToFloat(IF Truthy(given) THEN given ELSE PyFloat(10))
         IN [ok |-> amount.t = "float",
             name |-> Lower(PyToStr(DictGet(item.name, PyStr(<<>>)))),
             amount |-> amount.n,
             unit |-> Lower(PyToStr(DictGet(item.unit, PyStr(<<"g">>))))]

\* NutritionService._normalise_ingredients
NormaliseIngredients(items) == [i \in 1..Len(items) |-> NormaliseItem(items[i])]

\* faulty variant: the last matching key of the table wins
LookupProfileLastKey(name) ==
    LET hits == {i \in 1..Len(NUTRITION_DB) : Contains(name, NUTRITION_DB[i].key)}
    IN IF hits = {} THEN ZeroProfile
       ELSE NUTRITION_DB[CHOOSE i \in hits : \A j \in hits : j <= i].profile

\* NutritionService._lookup_profile, reading the table db
LookupProfileIn(db, name) ==
    LET hits == {i \in 1..Len(db) : Contains(name, db[i].key)}
    IN IF hits = {} THEN ZeroProfile
       ELSE db[CHOOSE i \in hits : \A j \in hits : i <= j].profile

\* NutritionService._lookup_profile
LookupProfile(name) == LookupProfileIn(NUTRITION_DB, name)

\* faulty variant: an unknown unit weighs nothing
ToGramsUnknownIsZero(amount, unit) ==
    LET rows == {i \in 1..Len(UNIT_TO_GRAMS) : UNIT_TO_GRAMS[i].unit = Lower(unit)}
    IN IF rows = {} THEN 0
       ELSE LET row == UNIT_TO_GRAMS[CHOOSE i \in rows : TRUE]
            IN (amount * row.num) \div row.den

\* NutritionService._to_grams: grams in tenths, exact when amount * factor is a
\* whole number of tenths
ToGramsIn(units, amount, unit) ==
    LET rows == {i \in 1..Len(units) : units[i].unit = Lower(unit)}
    IN IF rows = {} THEN amount
       ELSE LET row == units[CHOOSE i \in rows : TRUE]
            IN (amount * row.num) \div row.den

\* NutritionService._to_grams
ToGrams(amount, unit) == ToGramsIn(UNIT_TO_GRAMS, amount, unit)

\* round(value, 2) of a value counted in ten-thousandths: hundredths, ties to even
Round2(v) ==
    LET q == v \div 100
        r == v % 100
    IN IF r > 50 \/ (r = 50 /\ q % 2 = 1) THEN q + 1 ELSE q

\* faulty variant: each ingredient overwrites the totals
SumTotalsLastOnly(normalised) ==
    IF normalised = <<>> THEN ZeroProfile
    ELSE LET ingredient == normalised[Len(normalised)]
             profile == LookupProfile(ingredient.name)
             grams == ToGrams(ingredient.amount, ingredient.unit)
         IN [key \in DEFAULT_KEYS |-> profile[key] * grams]

\* the totals after the loop of calculate_nutrition, in ten-thousandths
RECURSIVE SumTotals(_)
SumTotals(normalised) ==
    IF normalised = <<>> THEN ZeroProfile
    ELSE LET n == Len(normalised)
             ingredient == normalised[n]
             before == SumTotals(SubSeq(normalised, 1, n - 1))
             profile == LookupProfile(ingredient.name)
             grams == ToGrams(ingredient.amount, ingredient.unit)
         IN [key \in DEFAULT_KEYS |-> before[key] + profile[key] * grams]

\* faulty variant: an entry whose amount float() rejects is left out
CalculateNutritionSkipsRejected(items) ==
    LET totals == SumTotals(SelectSeq(NormaliseIngredients(items), LAMBDA n : n.ok))
    IN [raised |-> "", totals |-> <<[key \in DEFAULT_KEYS |-> Round2(totals[key])]>>]

\* NutritionService.calculate_nutrition
CalculateNutrition(items) ==
    LET normalised == NormaliseIngredients(items)
    IN IF \E i \in 1..Len(normalised) : ~normalised[i].ok
       THEN [raised |-> "ValueError", totals |-> <<>>]
       ELSE LET totals == SumTotals(normalised)
            IN [raised |-> "",
                totals |-> <<[key \in DEFAULT_KEYS |-> Round2(totals[key])]>>]

\* an ingredient dict as calculate_nutrition receives it
Dict(name, amount, unit) ==
    [kind |-> "dict", str |-> <<>>, name |-> name, amount |-> amount, unit |-> unit]

\* a bare name string as calculate_nutrition receives it
Bare(chars) ==
    [kind |-> "str", str |-> chars, name |-> PyAbsent, amount |-> PyAbsent, unit |-> PyAbsent]

(***************************************************************************)
(* The inputs of the scrape request.                                       *)
(***************************************************************************)
LineBlank == <<" ">>
LineCake == <<" ", "C", "a", "k", "e">>
LineIngredientsHeader == <<"I", "n", "g", "r", "e", "d", "i", "e", "n", "t", "s", ":">>
LineInstructionsHeader == <<"I", "N", "S", "T", "R", "U", "C", "T", "I", "O", "N", "S">>
LinePrep == <<"P", "r", "e", "p", " ", "T", "i", "m", "e", ":", " ", "1", "0", " ", "m", "i", "n">>
LineCook == <<"c", "o", "o", "k", " ", "t", "i", "m", "e", " ", "5">>
LineServings == <<"S", "e", "r", "v", "i", "n", "g", "s", " ", "4">>
LineFlour == <<"-", " ", "1", " ", "c", "u", "p", " ", "f", "l", "o", "u", "r">>
LineTwo == <<"2">>
LineBullet == <<"-">>
LineMix == <<"1", ".", " ", "M", "i", "x">>

RawLines == {LineBlank, LineCake, LineIngredientsHeader, LineInstructionsHeader,
             LinePrep, LineCook, LineServings, LineFlour, LineTwo, LineBullet, LineMix}

\* the texts trafilatura.extract may return, each as its splitlines(); <<>> is ""
Texts == UNION {[1..n -> RawLines] : n \in 0..MaxLines}

SomeUrl == <<"h", "t", "t", "p", ":", "/", "/", "x">>

\* request.get_json(silent=True): None, {}, {"url": None}, {"url": ""}, {"url": ...}
Payloads ==
    {[json |-> FALSE, url |-> PyAbsent], [json |-> TRUE, url |-> PyAbsent],
     [json |-> TRUE, url |-> PyNone], [json |-> TRUE, url |-> PyStr(<<>>)],
     [json |-> TRUE, url |-> PyStr(SomeUrl)]}

\* trafilatura.fetch_url: None or the page
FetchResults == {PyNone, PyStr(<<"<", "p", ">">>)}

(***************************************************************************)
(* _parse_extracted_text: the rule that handles a line of the loop.        *)
(***************************************************************************)
\* faulty variant: the section is looked at before the metadata prefixes
LineRuleContentFirst(line, sect, desc) ==
    LET lower == Lower(line)
    IN IF StartsWith(lower, <<"i", "n", "g", "r", "e", "d", "i", "e", "n", "t", "s">>)
       THEN "ingredients_header"
       ELSE IF StartsWith(lower, <<"i", "n", "s", "t", "r", "u", "c", "t", "i", "o", "n", "s">>)
       THEN "instructions_header"
       ELSE IF sect = "ingredients" THEN "ingredient"
       ELSE IF sect = "instructions" THEN "instruction"
       ELSE IF StartsWith(lower, <<"p", "r", "e", "p", " ", "t", "i", "m", "e">>)
       THEN "prep_time"
       ELSE IF StartsWith(lower, <<"c", "o", "o", "k", " ", "t", "i", "m", "e">>)
       THEN "cook_time"
       ELSE IF StartsWith(lower, <<"s", "e", "r", "v", "i", "n", "g", "s">>)
       THEN "servings"
       ELSE IF desc = <<>> THEN "description"
       ELSE "skip"

\* faulty variant: a content line outside the sections always becomes the description
LineRuleOverwrites(line, sect, desc) ==
    LET lower == Lower(line)
    IN IF StartsWith(lower, <<"i", "n", "g", "r", "e", "d", "i", "e", "n", "t", "s">>)
       THEN "ingredients_header"
       ELSE IF StartsWith(lower, <<"i", "n", "s", "t", "r", "u", "c", "t", "i", "o", "n", "s">>)
       THEN "instructions_header"
       ELSE IF StartsWith(lower, <<"p", "r", "e", "p", " ", "t", "i", "m", "e">>)
       THEN "prep_time"
       ELSE IF StartsWith(lower, <<"c", "o", "o", "k", " ", "t", "i", "m", "e">>)
       THEN "cook_time"
       ELSE IF StartsWith(lower, <<"s", "e", "r", "v", "i", "n", "g", "s">>)
       THEN "servings"
       ELSE IF sect = "ingredients" THEN "ingredient"
       ELSE IF sect = "instructions" THEN "instruction"
       ELSE "description"

\* the if chain of the loop body
LineRule(line, sect, desc) ==
    LET lower == Lower(line)
    IN IF StartsWith(lower, <<"i", "n", "g", "r", "e", "d", "i", "e", "n", "t", "s">>)
       THEN "ingredients_header"
       ELSE IF StartsWith(lower, <<"i", "n", "s", "t", "r", "u", "c", "t", "i", "o", "n", "s">>)
       THEN "instructions_header"
       ELSE IF StartsWith(lower, <<"p", "r", "e", "p", " ", "t", "i", "m", "e">>)
       THEN "prep_time"
       ELSE IF StartsWith(lower, <<"c", "o", "o", "k", " ", "t", "i", "m", "e">>)
       THEN "cook_time"
       ELSE IF StartsWith(lower, <<"s", "e", "r", "v", "i", "n", "g", "s">>)
       THEN "servings"
       ELSE IF sect = "ingredients" THEN "ingredient"
       ELSE IF sect = "instructions" THEN "instruction"
       ELSE IF desc = <<>> THEN "description"
       ELSE "skip"

\* faulty variant: blank lines are dropped but the lines kept are not stripped
UnstrippedLines(raw) == SelectSeq(raw, LAMBDA l : Strip(l) # <<>>)

\* lines = [line.strip() for line in text.splitlines() if line.strip()]
RECURSIVE StrippedLines(_)
StrippedLines(raw) ==
    IF raw = <<>> THEN <<>>
    ELSE LET s == Strip(raw[1])
         IN (IF s = <<>> THEN <<>> ELSE <<s>>) \o StrippedLines(Tail(raw))

(***************************************************************************)
(* POST /api/scrape                                                        *)
(***************************************************************************)
NoResponse == [status |-> 0, message |-> ""]

ScrapeInit ==
    /\ pc = "route"
    /\ payload \in Payloads
    /\ url = PyNone
    /\ downloaded = PyNone
    /\ text = [isNone |-> TRUE, raw |-> <<>>]
    /\ fetchCalls = 0 /\ extractCalls = 0 /\ parseCalls = 0
    /\ lines = <<>> /\ idx = 0
    /\ title = <<>> /\ description = <<>>
    /\ ingredients = <<>> /\ instructions = <<>>
    /\ prep_time = PyNone /\ cook_time = PyNone /\ servings = PyNone
    /\ section = "none"
    /\ error = ""
    /\ result = <<>>
    /\ response = NoResponse

parseVars == <<lines, idx, title, description, ingredients, instructions,
               prep_time, cook_time, servings, section>>

\* scrape_recipe (the route): the payload check
RouteScrape ==
    /\ pc = "route"
    /\ IF ~payload.json \/ payload.url.t = "absent"
       THEN /\ response' = [status |-> 400, message |-> "Request must include a 'url' field"]
            /\ pc' = "responded"
            /\ url' = url
       ELSE /\ url' = payload.url
            /\ pc' = "scrape"
            /\ response' = response
    /\ UNCHANGED <<payload, downloaded, text, fetchCalls, extractCalls, parseCalls,
                   parseVars, error, result, besideScrape>>

\* faulty variant: the URL is not checked
ScrapeWithoutUrlCheck ==
    /\ pc = "scrape"
    /\ pc' = "fetch"
    /\ UNCHANGED <<payload, url, downloaded, text, fetchCalls, extractCalls, parseCalls,
                   parseVars, error, result, response, besideScrape>>

\* _scrape: if not url
ScrapeCheckUrl ==
    /\ pc = "scrape"
    /\ IF ~Truthy(url)
       THEN error' = "A URL must be provided" /\ pc' = "raised"
       ELSE error' = error /\ pc' = "fetch"
    /\ UNCHANGED <<payload, url, downloaded, text, fetchCalls, extractCalls, parseCalls,
                   parseVars, result, response, besideScrape>>

\* _scrape: downloaded = trafilatura.fetch_url(url)
ScrapeFetch ==
    /\ pc = "fetch"
    /\ \E d \in FetchResults :
          /\ downloaded' = d
          /\ IF ~Truthy(d)
             THEN error' = "Unable to retrieve the requested URL" /\ pc' = "raised"
             ELSE error' = error /\ pc' = "extract"
    /\ fetchCalls' = fetchCalls + 1
    /\ UNCHANGED <<payload, url, text, extractCalls, parseCalls,
                   parseVars, result, response, besideScrape>>

\* _scrape: extracted = trafilatura.extract(downloaded, ...)
ScrapeExtract ==
    /\ pc = "extract"
    /\ \E e \in {[isNone |-> TRUE, raw |-> <<>>]} \cup {[isNone |-> FALSE, raw |-> r] : r \in Texts} :
          /\ text' = e
          /\ IF e.isNone \/ e.raw = <<>>
             THEN error' = "Unable to extract recipe content from the page" /\ pc' = "raised"
             ELSE error' = error /\ pc' = "parse"
    /\ extractCalls' = extractCalls + 1
    /\ UNCHANGED <<payload, url, downloaded, fetchCalls, parseCalls,
                   parseVars, result, response, besideScrape>>

\* _parse_extracted_text, up to the loop
ParseStart ==
    /\ pc = "parse"
    /\ parseCalls' = parseCalls + 1
    /\ lines' = StrippedLines(text.raw)
    /\ IF lines' = <<>>
       THEN /\ error' = "Extracted content was empty" /\ pc' = "raised"
            /\ UNCHANGED <<idx, title>>
       ELSE /\ title' = lines'[1]
            /\ idx' = 2
            /\ error' = error /\ pc' = "loop"
    /\ description' = <<>>
    /\ ingredients' = <<>>
    /\ instructions' = <<>>
    /\ prep_time' = PyNone /\ cook_time' = PyNone /\ servings' = PyNone
    /\ section' = "none"
    /\ UNCHANGED <<payload, url, downloaded, text, fetchCalls, extractCalls,
                   result, response, besideScrape>>

\* the loop is at a line that the given rule handles
AtLine(rule) ==
    /\ pc = "loop"
    /\ idx <= Len(lines)
    /\ LineRule(lines[idx], section, description) = rule

loopFrame == <<pc, payload, url, downloaded, text, fetchCalls, extractCalls, parseCalls,
               lines, title, error, result, response, besideScrape>>

\* faulty variant: entering the ingredients section starts a new list
ParseIngredientsHeaderResets ==
    /\ AtLine("ingredients_header")
    /\ section' = "ingredients"
    /\ ingredients' = <<>>
    /\ idx' = idx + 1
    /\ UNCHANGED <<loopFrame, description, instructions,
                   prep_time, cook_time, servings>>

ParseIngredientsHeader ==
    /\ AtLine("ingredients_header")
    /\ section' = "ingredients"
    /\ idx' = idx + 1
    /\ UNCHANGED <<loopFrame, description, ingredients, instructions,
                   prep_time, cook_time, servings>>

ParseInstructionsHeader ==
    /\ AtLine("instructions_header")
    /\ section' = "instructions"
    /\ idx' = idx + 1
    /\ UNCHANGED <<loopFrame, description, ingredients, instructions,
                   prep_time, cook_time, servings>>

ParsePrepTime ==
    /\ AtLine("prep_time")
    /\ prep_time' = ExtractNumber(lines[idx])
    /\ idx' = idx + 1
    /\ UNCHANGED <<loopFrame, description, ingredients, instructions,
                   cook_time, servings, section>>

ParseCookTime ==
    /\ AtLine("cook_time")
    /\ cook_time' = ExtractNumber(lines[idx])
    /\ idx' = idx + 1
    /\ UNCHANGED <<loopFrame, description, ingredients, instructions,
                   prep_time, servings, section>>

\* faulty variant: a servings line ends the section
ParseServingsEndsSection ==
    /\ AtLine("servings")
    /\ servings' = ExtractNumber(lines[idx])
    /\ section' = "none"
    /\ idx' = idx + 1
    /\ UNCHANGED <<loopFrame, description, ingredients, instructions,
                   prep_time, cook_time>>

ParseServings ==
    /\ AtLine("servings")
    /\ servings' = ExtractNumber(lines[idx])
    /\ idx' = idx + 1
    /\ UNCHANGED <<loopFrame, description, ingredients, instructions,
                   prep_time, cook_time, section>>

ParseIngredientLine ==
    /\ AtLine("ingredient")
    /\ ingredients' = Append(ingredients, ParseIngredient(lines[idx]))
    /\ idx' = idx + 1
    /\ UNCHANGED <<loopFrame, description, instructions,
                   prep_time, cook_time, servings, section>>

ParseInstructionLine ==
    /\ AtLine("instruction")
    /\ instructions' = Append(instructions, NormaliseInstruction(lines[idx]))
    /\ idx' = idx + 1
    /\ UNCHANGED <<loopFrame, description, ingredients,
                   prep_time, cook_time, servings, section>>

ParseDescription ==
    /\ AtLine("description")
    /\ description' = lines[idx]
    /\ idx' = idx + 1
    /\ UNCHANGED <<loopFrame, ingredients, instructions,
                   prep_time, cook_time, servings, section>>

ParseSkipLine ==
    /\ AtLine("skip")
    /\ idx' = idx + 1
    /\ UNCHANGED <<loopFrame, description, ingredients, instructions,
                   prep_time, cook_time, servings, section>>

\* _parse_extracted_text, after the loop
ParseFinish ==
    /\ pc = "loop"
    /\ idx > Len(lines)
    /\ LET nutrition == CalculateNutrition(
                            [i \in 1..Len(ingredients) |->
                                Dict(ingredients[i].name, ingredients[i].amount,
                                     ingredients[i].unit)])
       IN IF nutrition.raised # ""
          THEN /\ error' = "could not convert string to float"
               /\ pc' = "raised"
               /\ result' = result
          ELSE /\ result' = <<[title |-> title,
                               description |-> description,
                               ingredients |-> ingredients,
                               instructions |-> Join(instructions, <<"\n">>),
                               prep_time |-> prep_time,
                               cook_time |-> cook_time,
                               servings |-> servings,
                               image_url |-> PyNone,
                               source_url |-> url,
                               nutrition |-> nutrition.totals[1]]>>
               /\ pc' = "returned"
               /\ error' = error
    /\ UNCHANGED <<payload, url, downloaded, text, fetchCalls, extractCalls, parseCalls,
                   parseVars, response, besideScrape>>

\* scrape_recipe (the route): except ValueError
RouteCatch ==
    /\ pc = "raised"
    /\ response' = [status |-> 400, message |-> error]
    /\ pc' = "responded"
    /\ UNCHANGED <<payload, url, downloaded, text, fetchCalls, extractCalls, parseCalls,
                   parseVars, error, result, besideScrape>>

\* scrape_recipe (the route): return jsonify(recipe_data)
RouteReturn ==
    /\ pc = "returned"
    /\ response' = [status |-> 200, message |-> ""]
    /\ pc' = "responded"
    /\ UNCHANGED <<payload, url, downloaded, text, fetchCalls, extractCalls, parseCalls,
                   parseVars, error, result, besideScrape>>

(***************************************************************************)
(* _parse_ingredient called on one line                                    *)
(***************************************************************************)
Tokens == {<<"1">>, <<"2", ".", "5">>, <<"-", "1">>, <<"1", "/", "2">>,
           <<"c", "u", "p">>, <<"f", "l", "o", "u", "r">>}

\* what may precede the first token: nothing, '- ', '-'
Prefixes == {<<>>, <<"-", " ">>, <<"-">>}

Separators == {<<" ">>, <<" ", " ">>}

NotParsed == [called |-> FALSE, name |-> PyNone, amount |-> PyNone, unit |-> PyNone]

IngredientInit ==
    /\ \E prefix \in Prefixes, sep \in Separators :
         \E toks \in UNION {[1..n -> Tokens] : n \in 0..MaxTokens} :
            ingLine = [prefix |-> prefix, toks |-> toks, sep |-> sep,
                       line |-> prefix \o Join(toks, sep)]
    /\ ingOut = NotParsed

ParseIngredientCall ==
    /\ ~ingOut.called
    /\ LET r == ParseIngredient(ingLine.line)
       IN ingOut' = [called |-> TRUE, name |-> r.name, amount |-> r.amount, unit |-> r.unit]
    /\ UNCHANGED <<ingLine, besideIngredient>>

(***************************************************************************)
(* calculate_nutrition called on one ingredient list                       *)
(***************************************************************************)
SampleItems ==
    {Bare(<<"F", "l", "o", "u", "r">>),
     Dict(PyStr(<<"f", "l", "o", "u", "r">>), PyInt(100), PyStr(<<"g">>)),
     Dict(PyStr(<<"f", "l", "o", "u", "r">>), PyInt(0 - 100), PyStr(<<"g">>)),
     Dict(PyStr(<<"S", "u", "g", "a", "r">>), PyAbsent, PyAbsent),
     Dict(PyStr(<<"s", "a", "l", "t">>), PyFloat(5), PyStr(<<"t", "s", "p">>)),
     Dict(PyStr(<<"e", "g", "g">>), PyStr(<<"2">>), PyStr(<<"w", "h", "o", "l", "e">>)),
     Dict(PyStr(<<"m", "i", "l", "k">>), PyStr(<<"1", "/", "2">>), PyStr(<<"c", "u", "p">>)),
     Dict(PyStr(<<"r", "u", "m">>), PyInt(1), PyStr(<<"n", "i", "p">>)),
     Dict(PyStr(<<>>), PyNone, PyNone),
     Dict(PyAbsent, PyInt(100), PyStr(<<"g">>)),
     Dict(PyStr(<<"B", "u", "t", "t", "e", "r">>), PyInt(0), PyStr(<<"G">>)),
     Dict(PyStr(<<"o", "i", "l">>), PyStr(<<>>), PyAbsent),
     Dict(PyStr(<<"f", "l", "o", "u", "r">>), PyInt(50), PyStr(<<"s", "m", "i", "d", "g", "e">>)),
     Dict(PyStr(<<"r", "u", "m">>), PyInt(1), PyStr(<<"c", "u", "p">>)),
     Dict(PyStr(<<"s", "u", "g", "a", "r">>), PyStr(<<" ">>), PyStr(<<"g">>))}

NotCalculated == [called |-> FALSE, raised |-> "", totals |-> <<>>]

NutritionInit ==
    /\ nutIn \in UNION {[1..n -> SampleItems] : n \in 0..MaxIngredients}
    /\ nutOut = NotCalculated
    /\ nutNorm = <<>>

CalculateNutritionCall ==
    /\ ~nutOut.called
    /\ LET r == CalculateNutrition(nutIn)
       IN /\ nutOut' = [called |-> TRUE, raised |-> r.raised, totals |-> r.totals]
          /\ nutNorm' = IF r.raised # "" THEN <<>> ELSE NormaliseIngredients(nutIn)
    /\ UNCHANGED <<nutIn, besideNutrition>>

(***************************************************************************)
(* _lookup_profile called on one name                                      *)
(***************************************************************************)
\* what an ingredient name is made of: the keys of the table, in either case, and
\* other characters
NameParts ==
    {NUTRITION_DB[i].key : i \in 1..Len(NUTRITION_DB)}
        \cup {<<" ">>, <<"x">>, <<"E", "g", "g">>}

\* the names _normalise_ingredients may hand over: lowercased
Names ==
    {Lower(Join(parts, <<>>)) : parts \in UNION {[1..n -> NameParts] : n \in 0..MaxNameParts}}

NotLookedUp == [called |-> FALSE, profile |-> ZeroProfile]

LookupInit ==
    /\ lookName \in Names
    /\ lookOut = NotLookedUp

LookupProfileCall ==
    /\ ~lookOut.called
    /\ lookOut' = [called |-> TRUE, profile |-> LookupProfile(lookName)]
    /\ UNCHANGED <<lookName, besideLookup>>

(***************************************************************************)
(* Calls of calculate_nutrition running at the same time, each with its    *)
(* own locals, all reading the two class-level tables.                     *)
(***************************************************************************)
Callers == {1, 2}

CallItems ==
    {Dict(PyStr(<<"f", "l", "o", "u", "r">>), PyInt(100), PyStr(<<"g">>)),
     Bare(<<"S", "u", "g", "a", "r">>),
     Dict(PyStr(<<"m", "i", "l", "k">>), PyStr(<<"1", "/", "2">>), PyStr(<<"c", "u", "p">>))}

\* the locals of a call: ingredients, normalised, the place in the loop, totals,
\* and what it returned
Frame(items, at) ==
    [in |-> items, at |-> at, normalised |-> <<>>, pos |-> 0,
     totals |-> ZeroProfile, out |-> <<>>]

CallsInit ==
    /\ nutrition_db = NUTRITION_DB
    /\ unit_to_grams = UNIT_TO_GRAMS
    /\ calls \in [Callers -> {Frame(items, "start") :
                                items \in UNION {[1..n -> CallItems] : n \in 0..MaxIngredients}}]

\* normalised = self._normalise_ingredients(ingredients)
CallNormalise(c) ==
    /\ calls[c].at = "start"
    /\ LET normalised == NormaliseIngredients(calls[c].in)
       IN calls' = [calls EXCEPT ![c] =
                      IF \E i \in 1..Len(normalised) : ~normalised[i].ok
                      THEN [@ EXCEPT !.at = "raised"]
                      ELSE [@ EXCEPT !.at = "loop", !.normalised = normalised, !.pos = 1]]
    /\ UNCHANGED <<nutrition_db, unit_to_grams, besideCalls>>

\* faulty variant: the profile found is taken out of the table
CallAccumulateConsumes(c) ==
    /\ calls[c].at = "loop"
    /\ calls[c].pos <= Len(calls[c].normalised)
    /\ LET ingredient == calls[c].normalised[calls[c].pos]
           profile == LookupProfileIn(nutrition_db, ingredient.name)
           grams == ToGramsIn(unit_to_grams, ingredient.amount, ingredient.unit)
       IN /\ calls' = [calls EXCEPT ![c].totals =
                          [key \in DEFAULT_KEYS |-> @[key] + profile[key] * grams],
                                    ![c].pos = @ + 1]
          /\ nutrition_db' = [i \in 1..Len(nutrition_db) |->
                                 IF Contains(ingredient.name, nutrition_db[i].key)
                                 THEN [key |-> nutrition_db[i].key, profile |-> ZeroProfile]
                                 ELSE nutrition_db[i]]
    /\ UNCHANGED <<unit_to_grams, besideCalls>>

\* one turn of the loop over normalised
CallAccumulate(c) ==
    /\ calls[c].at = "loop"
    /\ calls[c].pos <= Len(calls[c].normalised)
    /\ LET ingredient == calls[c].normalised[calls[c].pos]
           profile == LookupProfileIn(nutrition_db, ingredient.name)
           grams == ToGramsIn(unit_to_grams, ingredient.amount, ingredient.unit)
       IN calls' = [calls EXCEPT ![c].totals =
                       [key \in DEFAULT_KEYS |-> @[key] + profile[key] * grams],
                                 ![c].pos = @ + 1]
    /\ UNCHANGED <<nutrition_db, unit_to_grams, besideCalls>>

\* return {key: round(value, 2) for key, value in totals.items()}
CallReturn(c) ==
    /\ calls[c].at = "loop"
    /\ calls[c].pos > Len(calls[c].normalised)
    /\ calls' = [calls EXCEPT ![c].at = "done",
                              ![c].out = <<[key \in DEFAULT_KEYS |->
                                              Round2(calls[c].totals[key])]>>]
    /\ UNCHANGED <<nutrition_db, unit_to_grams, besideCalls>>

(***************************************************************************)
(* POST /api/meal-plans and PUT /api/meal-plans/<id>                       *)
(***************************************************************************)
\* the days of a month
DaysIn(year, month) ==
    IF month \in {4, 6, 9, 11} THEN 30
    ELSE IF month # 2 THEN 31
    ELSE IF year % 4 = 0 /\ (year % 100 # 0 \/ year % 400 = 0) THEN 29
    ELSE 28

\* datetime.fromisoformat(text) for the form YYYY-MM-DD: the date, PyNone for the
\* ValueError
FromIsoFormat(chars) ==
    IF /\ Len(chars) = 10
       /\ chars[5] = "-" /\ chars[8] = "-"
       /\ \A i \in {1, 2, 3, 4, 6, 7, 9, 10} : chars[i] \in Digit
    THEN LET year == DigitsValue(SubSeq(chars, 1, 4))
             month == DigitsValue(SubSeq(chars, 6, 7))
             day == DigitsValue(SubSeq(chars, 9, 10))
         IN IF year >= 1 /\ month \in 1..12 /\ day >= 1 /\ day <= DaysIn(year, month)
            THEN PyDate(year * 10000 + month * 100 + day)
            ELSE PyNone
    ELSE PyNone

\* MealPlanService._parse_date; value is payload.get(field), None for a missing field
ParseDate(value) ==
    IF value.t \in {"absent", "none"} \/ (value.t = "str" /\ value.s = <<>>)
    THEN [raised |-> FALSE, value |-> PyNone]
    ELSE IF value.t = "date" THEN [raised |-> FALSE, value |-> value]
    ELSE LET parsed == FromIsoFormat(PyToStr(value))
         IN [raised |-> parsed.t = "none", value |-> parsed]

DateFeb1 == <<"2", "0", "2", "3", "-", "0", "2", "-", "0", "1">>
DateFeb30 == <<"2", "0", "2", "3", "-", "0", "2", "-", "3", "0">>
DateTomorrow == <<"t", "o", "m", "o", "r", "r", "o", "w">>

\* request.get_json(silent=True) of a meal-plan request: None or a dict
MealPayloads ==
    {[json |-> FALSE, name |-> PyAbsent, start_date |-> PyAbsent, end_date |-> PyAbsent]}
      \cup [json : {TRUE},
            name : {PyAbsent, PyStr(<<>>), PyStr(<<"P", "l", "a", "n">>)},
            start_date : {PyAbsent, PyNone, PyStr(<<>>), PyStr(DateFeb1),
                          PyStr(DateFeb30), PyStr(DateTomorrow)},
            end_date : {PyAbsent, PyStr(DateFeb1), PyStr(DateTomorrow)}]

\* the dict is empty
EmptyPayload(body) ==
    body.name.t = "absent" /\ body.start_date.t = "absent" /\ body.end_date.t = "absent"

MealRow(id, name, start_date, end_date) ==
    [id |-> id, name |-> name, start_date |-> start_date, end_date |-> end_date]

\* the table before the request: one meal plan, with id 1
StoredMealPlans == <<MealRow(1, PyStr(<<"W", "e", "e", "k">>), PyDate(20230101), PyNone)>>

NoMealPlan == MealRow(0, PyNone, PyNone, PyNone)
NoMealResponse == [status |-> 0, message |-> ""]
DatesMessage == "Dates must be ISO formatted strings (YYYY-MM-DD)"

MealInit ==
    /\ mpPc = "route"
    /\ mpReq \in [op : {"create"}, id : {0}, body : MealPayloads]
                   \cup [op : {"update"}, id : {1, 2}, body : MealPayloads]
    /\ mpStore = StoredMealPlans
    /\ mpObj = NoMealPlan
    /\ mpError = ""
    /\ mpResponse = NoMealResponse

\* create_meal_plan (the route): if not payload
RouteCreateMealPlan ==
    /\ mpPc = "route"
    /\ mpReq.op = "create"
    /\ IF ~mpReq.body.json \/ EmptyPayload(mpReq.body)
       THEN /\ mpResponse' = [status |-> 400, message |-> "Request body must be JSON"]
            /\ mpPc' = "responded"
       ELSE /\ mpResponse' = mpResponse
            /\ mpPc' = "create"
    /\ UNCHANGED <<mpReq, mpStore, mpObj, mpError, besideMeal>>

\* MealPlanService.create_meal_plan: the name check
CreateCheckName ==
    /\ mpPc = "create"
    /\ IF ~Truthy(mpReq.body.name)
       THEN mpError' = "'name' is a required field" /\ mpPc' = "raised"
       ELSE mpError' = mpError /\ mpPc' = "create_dates"
    /\ UNCHANGED <<mpReq, mpStore, mpObj, mpResponse, besideMeal>>

\* MealPlanService.create_meal_plan: MealPlan(name=..., start_date=..., end_date=...)
CreateParseDates ==
    /\ mpPc = "create_dates"
    /\ LET start == ParseDate(mpReq.body.start_date)
           end == ParseDate(mpReq.body.end_date)
       IN IF start.raised \/ end.raised
          THEN /\ mpError' = DatesMessage
               /\ mpPc' = "raised"
               /\ mpObj' = mpObj
          ELSE /\ mpObj' = MealRow(Len(mpStore) + 1, mpReq.body.name, start.value, end.value)
               /\ mpPc' = "create_commit"
               /\ mpError' = mpError
    /\ UNCHANGED <<mpReq, mpStore, mpResponse, besideMeal>>

\* MealPlanService.create_meal_plan: add, commit, refresh
CreateCommit ==
    /\ mpPc = "create_commit"
    /\ mpStore' = Append(mpStore, mpObj)
    /\ mpPc' = "created"
    /\ UNCHANGED <<mpReq, mpObj, mpError, mpResponse, besideMeal>>

\* create_meal_plan (the route): except ValueError; the session is removed
RouteCreateMealPlanCatch ==
    /\ mpPc = "raised"
    /\ mpReq.op = "create"
    /\ mpResponse' = [status |-> 400, message |-> mpError]
    /\ mpObj' = NoMealPlan
    /\ mpPc' = "responded"
    /\ UNCHANGED <<mpReq, mpStore, mpError, besideMeal>>

\* create_meal_plan (the route): return 201; the session is removed
RouteCreateMealPlanReturn ==
    /\ mpPc = "created"
    /\ mpResponse' = [status |-> 201, message |-> ""]
    /\ mpObj' = NoMealPlan
    /\ mpPc' = "responded"
    /\ UNCHANGED <<mpReq, mpStore, mpError, besideMeal>>

\* update_meal_plan (the route): if payload is None
RouteUpdateMealPlan ==
    /\ mpPc = "route"
    /\ mpReq.op = "update"
    /\ IF ~mpReq.body.json
       THEN /\ mpResponse' = [status |-> 400, message |-> "Request body must be JSON"]
            /\ mpPc' = "responded"
       ELSE /\ mpResponse' = mpResponse
            /\ mpPc' = "update"
    /\ UNCHANGED <<mpReq, mpStore, mpObj, mpError, besideMeal>>

\* MealPlanService.update_meal_plan: get_meal_plan_by_id
UpdateFind ==
    /\ mpPc = "update"
    /\ IF \E i \in 1..Len(mpStore) : mpStore[i].id = mpReq.id
       THEN /\ mpObj' = mpStore[CHOOSE i \in 1..Len(mpStore) : mpStore[i].id = mpReq.id]
            /\ mpPc' = "update_name"
       ELSE /\ mpObj' = mpObj
            /\ mpPc' = "not_found"
    /\ UNCHANGED <<mpReq, mpStore, mpError, mpResponse, besideMeal>>

\* MealPlanService.update_meal_plan: if "name" in payload
UpdateName ==
    /\ mpPc = "update_name"
    /\ mpObj' = IF mpReq.body.name.t # "absent"
                THEN [mpObj EXCEPT !.name = mpReq.body.name] ELSE mpObj
    /\ mpPc' = "update_start"
    /\ UNCHANGED <<mpReq, mpStore, mpError, mpResponse, besideMeal>>

\* MealPlanService.update_meal_plan: if "start_date" in payload
UpdateStartDate ==
    /\ mpPc = "update_start"
    /\ LET start == ParseDate(mpReq.body.start_date)
       IN IF mpReq.body.start_date.t = "absent"
          THEN mpObj' = mpObj /\ mpError' = mpError /\ mpPc' = "update_end"
          ELSE IF start.raised
          THEN mpObj' = mpObj /\ mpError' = DatesMessage /\ mpPc' = "raised"
          ELSE /\ mpObj' = [mpObj EXCEPT !.start_date = start.value]
               /\ mpError' = mpError /\ mpPc' = "update_end"
    /\ UNCHANGED <<mpReq, mpStore, mpResponse, besideMeal>>

\* MealPlanService.update_meal_plan: if "end_date" in payload
UpdateEndDate ==
    /\ mpPc = "update_end"
    /\ LET end == ParseDate(mpReq.body.end_date)
       IN IF mpReq.body.end_date.t = "absent"
          THEN mpObj' = mpObj /\ mpError' = mpError /\ mpPc' = "update_commit"
          ELSE IF end.raised
          THEN mpObj' = mpObj /\ mpError' = DatesMessage /\ mpPc' = "raised"
          ELSE /\ mpObj' = [mpObj EXCEPT !.end_date = end.value]
               /\ mpError' = mpError /\ mpPc' = "update_commit"
    /\ UNCHANGED <<mpReq, mpStore, mpResponse, besideMeal>>

\* MealPlanService.update_meal_plan: add, commit, refresh
UpdateCommit ==
    /\ mpPc = "update_commit"
    /\ mpStore' = [i \in 1..Len(mpStore) |->
                      IF mpStore[i].id = mpObj.id THEN mpObj ELSE mpStore[i]]
    /\ mpPc' = "updated"
    /\ UNCHANGED <<mpReq, mpObj, mpError, mpResponse, besideMeal>>

\* update_meal_plan (the route) has no except clause: the ValueError leaves the
\* view, Flask answers 500 and the session, with the changed object, is removed
RouteUpdateMealPlanRaises ==
    /\ mpPc = "raised"
    /\ mpReq.op = "update"
    /\ mpResponse' = [status |-> 500, message |-> "Internal Server Error"]
    /\ mpObj' = NoMealPlan
    /\ mpPc' = "responded"
    /\ UNCHANGED <<mpReq, mpStore, mpError, besideMeal>>

\* update_meal_plan (the route): 404 or the meal plan; the session is removed
RouteUpdateMealPlanReturn ==
    /\ mpPc \in {"not_found", "updated"}
    /\ mpResponse' = IF mpPc = "not_found"
                     THEN [status |-> 404, message |-> "Meal plan not found"]
                     ELSE [status |-> 200, message |-> ""]
    /\ mpObj' = NoMealPlan
    /\ mpPc' = "responded"
    /\ UNCHANGED <<mpReq, mpStore, mpError, besideMeal>>

(***************************************************************************)
(* POST /api/recipes and RecipeService.create_recipe                       *)
(***************************************************************************)
\* the 'ingredients' of a payload: missing, [], or a list of dicts, {} among them
IngredientPayloads ==
    {[given |-> FALSE, items |-> <<>>],
     [given |-> TRUE, items |-> <<>>],
     [given |-> TRUE, items |-> <<[empty |-> FALSE, name |-> PyStr(<<"f", "l", "o", "u", "r">>)]>>],
     [given |-> TRUE, items |-> <<[empty |-> TRUE, name |-> PyAbsent],
                                  [empty |-> FALSE, name |-> PyStr(<<"e", "g", "g">>)]>>]}

\* the 'nutrition' of a payload: missing, {}, or {"calories": 200}
NutritionPayloads ==
    {[given |-> FALSE, calories |-> PyAbsent],
     [given |-> TRUE, calories |-> PyAbsent],
     [given |-> TRUE, calories |-> PyInt(200)]}

\* the payload: None or a dict
RecipePayloads ==
    {[json |-> FALSE, title |-> PyAbsent, description |-> PyAbsent,
      ingredients |-> [given |-> FALSE, items |-> <<>>],
      nutrition |-> [given |-> FALSE, calories |-> PyAbsent]]}
      \cup [json : {TRUE},
            title : {PyAbsent, PyNone, PyStr(<<>>), PyStr(<<"C", "a", "k", "e">>)},
            description : {PyAbsent, PyStr(<<"d">>)},
            ingredients : IngredientPayloads,
            nutrition : NutritionPayloads]

\* not payload: None or {}
NoRecipePayload(body) ==
    \/ ~body.json
    \/ /\ body.title.t = "absent" /\ body.description.t = "absent"
       /\ ~body.ingredients.given /\ ~body.nutrition.given

\* rows of the three tables
RecipeRows(recipeRows, ingredientRows, nutritionRows) ==
    [recipes |-> recipeRows, ingredients |-> ingredientRows, nutrition |-> nutritionRows]

\* the tables before the request: one recipe with one ingredient
StoredRecipes ==
    RecipeRows(<<[id |-> 1, title |-> PyStr(<<"S", "o", "u", "p">>), description |-> PyNone]>>,
               <<[recipe_id |-> 1, name |-> PyStr(<<"s", "a", "l", "t">>)]>>,
               <<>>)

NothingPending == RecipeRows(<<>>, <<>>, <<>>)
NoRecipeResponse == [status |-> 0, message |-> ""]

RecipeInit ==
    /\ rcReq \in [via : {"api", "service"}, body : RecipePayloads]
    /\ rcPc = IF rcReq.via = "api" THEN "route" ELSE "create"
    /\ rcStore = StoredRecipes
    /\ rcObj = NothingPending
    /\ rcError = ""
    /\ rcResponse = NoRecipeResponse

\* create_recipe (the route): if not payload
RouteCreateRecipe ==
    /\ rcPc = "route"
    /\ IF NoRecipePayload(rcReq.body)
       THEN /\ rcResponse' = [status |-> 400, message |-> "Request body must be JSON"]
            /\ rcPc' = "responded"
       ELSE /\ rcResponse' = rcResponse
            /\ rcPc' = "create"
    /\ UNCHANGED <<rcReq, rcStore, rcObj, rcError, besideRecipe>>

\* faulty variant: only the presence of 'title' is checked
CreateRecipeCheckTitlePresent ==
    /\ rcPc = "create"
    /\ IF rcReq.body.title.t = "absent"
       THEN rcError' = "'title' is a required field" /\ rcPc' = "raised"
       ELSE rcError' = rcError /\ rcPc' = "build"
    /\ UNCHANGED <<rcReq, rcStore, rcObj, rcResponse, besideRecipe>>

\* RecipeService.create_recipe: title = (data or {}).get("title"); if not title
CreateRecipeCheckTitle ==
    /\ rcPc = "create"
    /\ IF ~Truthy(rcReq.body.title)
       THEN rcError' = "'title' is a required field" /\ rcPc' = "raised"
       ELSE rcError' = rcError /\ rcPc' = "build"
    /\ UNCHANGED <<rcReq, rcStore, rcObj, rcResponse, besideRecipe>>

\* RecipeService.create_recipe: Recipe(...), _apply_ingredients, _apply_nutrition
CreateRecipeBuild ==
    /\ rcPc = "build"
    /\ LET id == Len(rcStore.recipes) + 1
           body == rcReq.body
           kept == SelectSeq(body.ingredients.items, LAMBDA item : ~item.empty)
       IN rcObj' = RecipeRows(
                      <<[id |-> id, title |-> body.title,
                         description |-> DictGet(body.description, PyNone)]>>,
                      [i \in 1..Len(kept) |-> [recipe_id |-> id, name |-> kept[i].name]],
                      IF body.nutrition.given /\ body.nutrition.calories.t # "absent"
                      THEN <<[recipe_id |-> id, calories |-> body.nutrition.calories]>>
                      ELSE <<>>)
    /\ rcPc' = "commit"
    /\ UNCHANGED <<rcReq, rcStore, rcError, rcResponse, besideRecipe>>

\* RecipeService.create_recipe: add, commit, refresh
CreateRecipeCommit ==
    /\ rcPc = "commit"
    /\ rcStore' = RecipeRows(rcStore.recipes \o rcObj.recipes,
                             rcStore.ingredients \o rcObj.ingredients,
                             rcStore.nutrition \o rcObj.nutrition)
    /\ rcPc' = "created"
    /\ UNCHANGED <<rcReq, rcObj, rcError, rcResponse, besideRecipe>>

\* create_recipe (the route): except ValueError
RouteCreateRecipeCatch ==
    /\ rcPc = "raised"
    /\ rcReq.via = "api"
    /\ rcResponse' = [status |-> 400, message |-> rcError]
    /\ rcPc' = "responded"
    /\ UNCHANGED <<rcReq, rcStore, rcObj, rcError, besideRecipe>>

\* create_recipe (the route): return 201
RouteCreateRecipeReturn ==
    /\ rcPc = "created"
    /\ rcReq.via = "api"
    /\ rcResponse' = [status |-> 201, message |-> ""]
    /\ rcPc' = "responded"
    /\ UNCHANGED <<rcReq, rcStore, rcObj, rcError, besideRecipe>>

(***************************************************************************)
(* RecipeService and MealPlanService called one after the other through    *)
(* one session.  The tables are those of the default SQLite database:      *)
(* foreign keys are not enforced, a new row gets the id after the largest  *)
(* one.  Of the eight plain columns of a recipe, which update_recipe       *)
(* treats alike, title and description are kept.                           *)
(***************************************************************************)
RecipeIds == {1, 2}
MealPlanIds == {1, 2}
Monday == PyStr(<<"M", "o", "n">>)
Tuesday == PyStr(<<"T", "u", "e">>)
Dinner == PyStr(<<"d", "i", "n", "n", "e", "r">>)
Lunch == PyStr(<<"l", "u", "n", "c", "h">>)

RecipeRow(id, recipeTitle, recipeDescription, pdf_path) ==
    [id |-> id, title |-> recipeTitle, description |-> recipeDescription,
     pdf_path |-> pdf_path]

\* a row of the table meal_plan_recipe
LinkRow(meal_plan_id, recipe_id, day, meal_type) ==
    [meal_plan_id |-> meal_plan_id, recipe_id |-> recipe_id, day |-> day,
     meal_type |-> meal_type]

\* the dicts passed to update_recipe and create_recipe
RecipeData ==
    [title : {PyAbsent, PyNone, PyStr(<<>>), PyStr(<<"C", "a", "k", "e">>)},
     description : {PyAbsent, PyStr(<<"d">>)}]

\* the dicts passed to update_meal_plan
MealPlanData ==
    [name : {PyAbsent, PyStr(<<"P", "l", "a", "n">>)},
     start_date : {PyAbsent, PyStr(<<>>), PyStr(DateFeb1), PyStr(DateTomorrow)},
     end_date : {PyAbsent, PyStr(DateFeb1)}]

NoData == [title |-> PyAbsent, description |-> PyAbsent, name |-> PyAbsent,
           start_date |-> PyAbsent, end_date |-> PyAbsent]

\* the record of a call: the operation, its arguments and what it returned
Call(op, id, recipe_id, data, day, meal_type, outcome) ==
    [op |-> op, id |-> id, recipe_id |-> recipe_id, data |-> data, day |-> day,
     meal_type |-> meal_type, rendered |-> FALSE, result |-> outcome]

OfRecipe(data) == [NoData EXCEPT !.title = data.title, !.description = data.description]
OfMealPlan(data) ==
    [NoData EXCEPT !.name = data.name, !.start_date = data.start_date,
                   !.end_date = data.end_date]

\* Session.get(Recipe, id): the rows with that id, none or one
GetRecipeById(id) == {r \in stRecipes : r.id = id}

\* Session.get(MealPlan, id): the object the session holds, else the row
GetMealPlanById(id) ==
    IF \E d \in stDirty : d.id = id THEN {d \in stDirty : d.id = id}
    ELSE {p \in stPlans : p.id = id}

\* Session.commit: the objects changed in the session are written to their rows
Flush(plans, dirty) ==
    {IF \E d \in dirty : d.id = p.id THEN CHOOSE d \in dirty : d.id = p.id ELSE p :
        p \in plans}

\* the id SQLite gives to a new row
NextId(rows) == IF rows = {} THEN 1 ELSE (CHOOSE r \in rows : \A o \in rows : o.id <= r.id).id + 1

\* data["days"] with no key
NoDays == [day \in {Monday, Tuesday}, meal_type \in {Dinner, Lunch} |-> <<>>]

StoreInit ==
    /\ stRecipes = {RecipeRow(1, PyStr(<<"S", "o", "u", "p">>), PyNone, PyNone)}
    /\ stPlans = {MealRow(1, PyStr(<<"W", "e", "e", "k">>), PyDate(20230101), PyNone)}
    /\ stLinks = <<LinkRow(1, 1, Monday, Dinner)>>
    /\ stDirty = {}
    /\ stCalls = 0
    /\ stLast = Call("none", 0, 0, NoData, PyNone, PyNone, "none")
    /\ stDays = NoDays

\* one more call is made
Called(record) == stCalls < MaxCalls /\ stCalls' = stCalls + 1 /\ stLast' = record

\* RecipeService.create_recipe
StoreCreateRecipe(data) ==
    /\ NextId(stRecipes) \in RecipeIds
    /\ IF ~Truthy(data.title)
       THEN /\ Called(Call("create_recipe", 0, 0, OfRecipe(data), PyNone, PyNone, "raised"))
            /\ UNCHANGED <<stRecipes, stPlans, stLinks, stDirty>>
       ELSE /\ Called(Call("create_recipe", NextId(stRecipes), 0, OfRecipe(data), PyNone,
                           PyNone, "ok"))
            /\ stRecipes' = stRecipes \cup
                   {RecipeRow(NextId(stRecipes), data.title,
                              DictGet(data.description, PyNone), PyNone)}
            /\ stPlans' = Flush(stPlans, stDirty)
            /\ stDirty' = {}
            /\ UNCHANGED stLinks
    /\ UNCHANGED <<stDays, besideStore>>

\* faulty variant: a field whose key is absent is reset
UpdateRecipeResetsAbsent(id, data) ==
    /\ LET found == GetRecipeById(id)
       IN IF found = {}
          THEN /\ Called(Call("update_recipe", id, 0, OfRecipe(data), PyNone, PyNone, "none"))
               /\ UNCHANGED <<stRecipes, stPlans, stLinks, stDirty>>
          ELSE LET recipe == CHOOSE r \in found : TRUE
                   changed == [recipe EXCEPT !.title = IF data.title.t # "absent"
                                                       THEN data.title ELSE @,
                                             !.description = DictGet(data.description, PyNone)]
               IN IF changed.title.t = "none"
                  THEN /\ Called(Call("update_recipe", id, 0, OfRecipe(data), PyNone, PyNone,
                                      "raised"))
                       /\ stDirty' = {}
                       /\ UNCHANGED <<stRecipes, stPlans, stLinks>>
                  ELSE /\ Called(Call("update_recipe", id, 0, OfRecipe(data), PyNone, PyNone,
                                      "ok"))
                       /\ stRecipes' = (stRecipes \ {recipe}) \cup {changed}
                       /\ stPlans' = Flush(stPlans, stDirty)
                       /\ stDirty' = {}
                       /\ UNCHANGED stLinks
    /\ UNCHANGED <<stDays, besideStore>>

\* RecipeService.update_recipe; a title of None is refused by the column
\* (nullable=False): the commit raises and rolls the session back
UpdateRecipe(id, data) ==
    /\ LET found == GetRecipeById(id)
       IN IF found = {}
          THEN /\ Called(Call("update_recipe", id, 0, OfRecipe(data), PyNone, PyNone, "none"))
               /\ UNCHANGED <<stRecipes, stPlans, stLinks, stDirty>>
          ELSE LET recipe == CHOOSE r \in found : TRUE
                   changed == [recipe EXCEPT !.title = IF data.title.t # "absent"
                                                       THEN data.title ELSE @,
                                             !.description = IF data.description.t # "absent"
                                                             THEN data.description ELSE @]
               IN IF changed.title.t = "none"
                  THEN /\ Called(Call("update_recipe", id, 0, OfRecipe(data), PyNone, PyNone,
                                      "raised"))
                       /\ stDirty' = {}
                       /\ UNCHANGED <<stRecipes, stPlans, stLinks>>
                  ELSE /\ Called(Call("update_recipe", id, 0, OfRecipe(data), PyNone, PyNone,
                                      "ok"))
                       /\ stRecipes' = (stRecipes \ {recipe}) \cup {changed}
                       /\ stPlans' = Flush(stPlans, stDirty)
                       /\ stDirty' = {}
                       /\ UNCHANGED stLinks
    /\ UNCHANGED <<stDays, besideStore>>

\* faulty variant: True whether or not the record exists
DeleteRecipeAlwaysTrue(id) ==
    /\ Called(Call("delete_recipe", id, 0, NoData, PyNone, PyNone, "true"))
    /\ IF GetRecipeById(id) = {}
       THEN UNCHANGED <<stRecipes, stPlans, stLinks, stDirty>>
       ELSE /\ stRecipes' = stRecipes \ GetRecipeById(id)
            /\ stPlans' = Flush(stPlans, stDirty)
            /\ stDirty' = {}
            /\ UNCHANGED stLinks
    /\ UNCHANGED <<stDays, besideStore>>

\* RecipeService.delete_recipe; the rows of meal_plan_recipe are no part of
\* the Recipe mapping and stay
DeleteRecipe(id) ==
    /\ IF GetRecipeById(id) = {}
       THEN /\ Called(Call("delete_recipe", id, 0, NoData, PyNone, PyNone, "false"))
            /\ UNCHANGED <<stRecipes, stPlans, stLinks, stDirty>>
       ELSE /\ Called(Call("delete_recipe", id, 0, NoData, PyNone, PyNone, "true"))
            /\ stRecipes' = stRecipes \ GetRecipeById(id)
            /\ stPlans' = Flush(stPlans, stDirty)
            /\ stDirty' = {}
            /\ UNCHANGED stLinks
    /\ UNCHANGED <<stDays, besideStore>>

\* the path generate_pdf builds for a recipe
PdfPath(id) == PyStr(<<"r", "e", "c", "i", "p", "e", "_">> \o NatToChars(id) \o <<".", "p", "d", "f">>)

\* faulty variant: the path is stored whatever the renderer reports
GeneratePdfStoresAlways(id, rendered) ==
    /\ IF GetRecipeById(id) = {}
       THEN /\ Called([Call("generate_pdf", id, 0, NoData, PyNone, PyNone, "none")
                       EXCEPT !.rendered = rendered])
            /\ UNCHANGED <<stRecipes, stPlans, stLinks, stDirty>>
       ELSE /\ Called([Call("generate_pdf", id, 0, NoData, PyNone, PyNone,
                             IF rendered THEN "path" ELSE "none")
                       EXCEPT !.rendered = rendered])
            /\ stRecipes' = {IF r.id = id THEN [r EXCEPT !.pdf_path = PdfPath(id)] ELSE r :
                                r \in stRecipes}
            /\ stPlans' = Flush(stPlans, stDirty)
            /\ stDirty' = {}
            /\ UNCHANGED stLinks
    /\ UNCHANGED <<stDays, besideStore>>

\* RecipeService.generate_pdf; rendered is what PDFService.generate_recipe_pdf
\* returns
GeneratePdf(id, rendered) ==
    /\ IF GetRecipeById(id) = {} \/ ~rendered
       THEN /\ Called([Call("generate_pdf", id, 0, NoData, PyNone, PyNone, "none")
                       EXCEPT !.rendered = rendered])
            /\ UNCHANGED <<stRecipes, stPlans, stLinks, stDirty>>
       ELSE /\ Called([Call("generate_pdf", id, 0, NoData, PyNone, PyNone, "path")
                       EXCEPT !.rendered = rendered])
            /\ stRecipes' = {IF r.id = id THEN [r EXCEPT !.pdf_path = PdfPath(id)] ELSE r :
                                r \in stRecipes}
            /\ stPlans' = Flush(stPlans, stDirty)
            /\ stDirty' = {}
            /\ UNCHANGED stLinks
    /\ UNCHANGED <<stDays, besideStore>>

\* MealPlanService.update_meal_plan: the fields are assigned in turn, a date
\* that does not parse raises and leaves the object as it is by then in the
\* session
StoreUpdateMealPlan(id, data) ==
    /\ LET found == GetMealPlanById(id)
       IN IF found = {}
          THEN /\ Called(Call("update_meal_plan", id, 0, OfMealPlan(data), PyNone, PyNone,
                              "none"))
               /\ UNCHANGED <<stRecipes, stPlans, stLinks, stDirty>>
          ELSE LET meal_plan == CHOOSE p \in found : TRUE
                   named == IF data.name.t # "absent"
                            THEN [meal_plan EXCEPT !.name = data.name] ELSE meal_plan
                   start == ParseDate(data.start_date)
                   started == IF data.start_date.t # "absent"
                              THEN [named EXCEPT !.start_date = start.value] ELSE named
                   end == ParseDate(data.end_date)
                   ended == IF data.end_date.t # "absent"
                            THEN [started EXCEPT !.end_date = end.value] ELSE started
                   others == {d \in stDirty : d.id # id}
               IN IF data.start_date.t # "absent" /\ start.raised
                  THEN /\ Called(Call("update_meal_plan", id, 0, OfMealPlan(data), PyNone,
                                      PyNone, "raised"))
                       /\ stDirty' = IF named \in stPlans THEN others ELSE others \cup {named}
                       /\ UNCHANGED <<stRecipes, stPlans, stLinks>>
                  ELSE IF data.end_date.t # "absent" /\ end.raised
                  THEN /\ Called(Call("update_meal_plan", id, 0, OfMealPlan(data), PyNone,
                                      PyNone, "raised"))
                       /\ stDirty' = IF started \in stPlans THEN others ELSE others \cup {started}
                       /\ UNCHANGED <<stRecipes, stPlans, stLinks>>
                  ELSE /\ Called(Call("update_meal_plan", id, 0, OfMealPlan(data), PyNone,
                                      PyNone, "ok"))
                       /\ stPlans' = Flush(stPlans, others \cup {ended})
                       /\ stDirty' = {}
                       /\ UNCHANGED <<stRecipes, stLinks>>
    /\ UNCHANGED <<stDays, besideStore>>

\* MealPlanService.delete_meal_plan; the rows of MealPlan.recipes go with it
StoreDeleteMealPlan(id) ==
    /\ IF GetMealPlanById(id) = {}
       THEN /\ Called(Call("delete_meal_plan", id, 0, NoData, PyNone, PyNone, "false"))
            /\ UNCHANGED <<stRecipes, stPlans, stLinks, stDirty>>
       ELSE /\ Called(Call("delete_meal_plan", id, 0, NoData, PyNone, PyNone, "true"))
            /\ stPlans' = {p \in Flush(stPlans, stDirty) : p.id # id}
            /\ stLinks' = SelectSeq(stLinks, LAMBDA row : row.meal_plan_id # id)
            /\ stDirty' = {}
            /\ UNCHANGED stRecipes
    /\ UNCHANGED <<stDays, besideStore>>

\* the row is in the table already: uq_meal_plan_recipe_entry
Duplicate(row) == \E i \in 1..Len(stLinks) : stLinks[i] = row

\* faulty variant: the table has no unique constraint
AddRecipeToMealPlanUnconstrained(id, recipe_id, day, meal_type) ==
    /\ IF ~Truthy(day) \/ ~Truthy(meal_type)
       THEN /\ Called(Call("add_recipe", id, recipe_id, NoData, day, meal_type, "raised"))
            /\ UNCHANGED <<stRecipes, stPlans, stLinks, stDirty>>
       ELSE IF GetMealPlanById(id) = {} \/ GetRecipeById(recipe_id) = {}
       THEN /\ Called(Call("add_recipe", id, recipe_id, NoData, day, meal_type, "none"))
            /\ UNCHANGED <<stRecipes, stPlans, stLinks, stDirty>>
       ELSE /\ Called(Call("add_recipe", id, recipe_id, NoData, day, meal_type, "ok"))
            /\ stLinks' = Append(stLinks, LinkRow(id, recipe_id, day, meal_type))
            /\ stPlans' = Flush(stPlans, stDirty)
            /\ stDirty' = {}
            /\ UNCHANGED stRecipes
    /\ UNCHANGED <<stDays, besideStore>>

\* MealPlanService.add_recipe_to_meal_plan; the insert of a row that exists
\* raises IntegrityError
AddRecipeToMealPlan(id, recipe_id, day, meal_type) ==
    /\ IF ~Truthy(day) \/ ~Truthy(meal_type)
       THEN /\ Called(Call("add_recipe", id, recipe_id, NoData, day, meal_type, "raised"))
            /\ UNCHANGED <<stRecipes, stPlans, stLinks, stDirty>>
       ELSE IF GetMealPlanById(id) = {} \/ GetRecipeById(recipe_id) = {}
       THEN /\ Called(Call("add_recipe", id, recipe_id, NoData, day, meal_type, "none"))
            /\ UNCHANGED <<stRecipes, stPlans, stLinks, stDirty>>
       ELSE IF Duplicate(LinkRow(id, recipe_id, day, meal_type))
       THEN /\ Called(Call("add_recipe", id, recipe_id, NoData, day, meal_type, "raised"))
            /\ UNCHANGED <<stRecipes, stPlans, stLinks, stDirty>>
       ELSE /\ Called(Call("add_recipe", id, recipe_id, NoData, day, meal_type, "ok"))
            /\ stLinks' = Append(stLinks, LinkRow(id, recipe_id, day, meal_type))
            /\ stPlans' = Flush(stPlans, stDirty)
            /\ stDirty' = {}
            /\ UNCHANGED stRecipes
    /\ UNCHANGED <<stDays, besideStore>>

\* the rows the DELETE statement of remove_recipe_from_meal_plan matches
Matches(row, id, recipe_id, day, meal_type) ==
    /\ row.meal_plan_id = id
    /\ row.recipe_id = recipe_id
    /\ Truthy(day) => row.day = day
    /\ Truthy(meal_type) => row.meal_type = meal_type

\* MealPlanService.remove_recipe_from_meal_plan
RemoveRecipeFromMealPlan(id, recipe_id, day, meal_type) ==
    /\ IF \/ GetMealPlanById(id) = {}
          \/ ~\E i \in 1..Len(stLinks) : Matches(stLinks[i], id, recipe_id, day, meal_type)
       THEN /\ Called(Call("remove_recipe", id, recipe_id, NoData, day, meal_type, "none"))
            /\ UNCHANGED <<stRecipes, stPlans, stLinks, stDirty>>
       ELSE /\ Called(Call("remove_recipe", id, recipe_id, NoData, day, meal_type, "ok"))
            /\ stLinks' = SelectSeq(stLinks, LAMBDA row :
                                        ~Matches(row, id, recipe_id, day, meal_type))
            /\ stPlans' = Flush(stPlans, stDirty)
            /\ stDirty' = {}
            /\ UNCHANGED stRecipes
    /\ UNCHANGED <<stDays, besideStore>>

\* faulty variant: the rows of a day, whatever the meal type
DaysIgnoringMealType(links, recipes, id, day, meal_type) ==
    LET joined == SelectSeq(links, LAMBDA row :
                      /\ row.meal_plan_id = id
                      /\ \E r \in recipes : r.id = row.recipe_id
                      /\ row.day = day)
    IN [i \in 1..Len(joined) |-> joined[i].recipe_id]

\* MealPlanService.get_meal_plan_with_recipes: data["days"][day][meal_type], the
\* ids of the recipes listed; <<>> when the key is missing
Days(links, recipes, id, day, meal_type) ==
    LET joined == SelectSeq(links, LAMBDA row :
                      /\ row.meal_plan_id = id
                      /\ \E r \in recipes : r.id = row.recipe_id
                      /\ row.day = day /\ row.meal_type = meal_type)
    IN [i \in 1..Len(joined) |-> joined[i].recipe_id]

\* teardown_appcontext: session_factory.remove() ends the session of a request
RemoveSession ==
    /\ stDirty # {}
    /\ stDirty' = {}
    /\ UNCHANGED <<stRecipes, stPlans, stLinks, stCalls, stLast, stDays, besideStore>>

DayArgs == {PyNone, Monday, Tuesday}
MealTypeArgs == {PyNone, Dinner, Lunch}

\* MealPlanService.get_meal_plan_with_recipes for the meal plan with this id
GetMealPlanWithRecipes(id) ==
    /\ GetMealPlanById(id) # {}
    /\ Called(Call("get_with_recipes", id, 0, NoData, PyNone, PyNone, "ok"))
    /\ stDays' = [day \in DayArgs \ {PyNone}, meal_type \in MealTypeArgs \ {PyNone} |->
                     Days(stLinks, stRecipes, id, day, meal_type)]
    /\ UNCHANGED <<stRecipes, stPlans, stLinks, stDirty, besideStore>>

IdleStore ==
    /\ stRecipes = {}
    /\ stPlans = {}
    /\ stLinks = <<>>
    /\ stDirty = {}
    /\ stCalls = 0
    /\ stLast = Call("none", 0, 0, NoData, PyNone, PyNone, "none")
    /\ stDays = NoDays

(***************************************************************************)
(* The views POST /recipes/<id>/add-to-meal-plan and                       *)
(* POST /recipes/<id>/add-to-new-meal-plan, each with a session of its own *)
(***************************************************************************)
\* the recipes of the views, with the rows of their ingredients (id, amount in
\* tenths); no recipe has the id 3
WebRecipes ==
    [id \in {1, 2} |->
        IF id = 1 THEN <<[id |-> 1, amount |-> PyFloat(20)], [id |-> 2, amount |-> PyNone]>>
        ELSE <<[id |-> 3, amount |-> PyFloat(5)]>>]

\* a row of shopping_lists and a row of shopping_list_items
ListRow(id, meal_plan_id) == [id |-> id, meal_plan_id |-> meal_plan_id]
ItemRow(shopping_list_id, ingredient_id, quantity) ==
    [shopping_list_id |-> shopping_list_id, ingredient_id |-> ingredient_id,
     quantity |-> quantity]

\* the fields of the two forms
FormOn == PyStr(<<"o", "n">>)
AddForms ==
    [kind : {"add"}, recipe_id : {1, 2, 3},
     meal_plan_id : {PyNone, PyStr(<<"1">>), PyStr(<<"2">>)},
     name : {PyNone}, start_date : {PyNone},
     day : DayArgs, meal_type : {PyNone, Dinner}, create_shopping_list : {PyNone, FormOn}]
NewForms ==
    [kind : {"new"}, recipe_id : {1, 3},
     meal_plan_id : {PyNone},
     name : {PyNone, PyStr(<<"P", "l", "a", "n">>)},
     start_date : {PyNone, PyStr(DateTomorrow)},
     day : {PyNone, Monday}, meal_type : {PyNone, Dinner},
     create_shopping_list : {PyNone, FormOn}]
NoForm == [kind |-> "none", recipe_id |-> 0, meal_plan_id |-> PyNone, name |-> PyNone,
           start_date |-> PyNone, day |-> PyNone, meal_type |-> PyNone,
           create_shopping_list |-> PyNone]

\* _parse_boolean
ParseBoolean(value) ==
    Lower(PyToStr(value)) \in {<<"1">>, <<"t", "r", "u", "e">>, <<"y", "e", "s">>, <<"o", "n">>}

\* int(meal_plan_id) if meal_plan_id else None; 0 for None
MealPlanIdOf(value) == IF Truthy(value) THEN DigitsValue(value.s) ELSE 0

WebInit ==
    /\ wbPlans = {MealRow(1, PyStr(<<"W", "e", "e", "k">>), PyDate(20230101), PyNone),
                  MealRow(2, PyStr(<<"N", "e", "x", "t">>), PyNone, PyNone)}
    /\ wbLinks = <<>>
    /\ wbLists = <<>>
    /\ wbItems = <<>>
    /\ wbRequests = 0
    /\ wbLast = [form |-> NoForm, flash |-> "none"]

\* faulty variant: an item is added for every ingredient, whether or not the
\* list has one
EnsureShoppingListAddsItems(lists, items, meal_plan_id, recipe_id) ==
    LET created == ~\E i \in 1..Len(lists) : lists[i].meal_plan_id = meal_plan_id
        listed == IF created THEN Append(lists, ListRow(Len(lists) + 1, meal_plan_id))
                  ELSE lists
        shopping_list == listed[CHOOSE i \in 1..Len(listed) :
                                    listed[i].meal_plan_id = meal_plan_id]
        given == WebRecipes[recipe_id]
    IN [lists |-> listed,
        items |-> items \o [k \in 1..Len(given) |->
                               ItemRow(shopping_list.id, given[k].id, given[k].amount)]]

\* _ensure_shopping_list: the list of the meal plan is created when there is
\* none; for each ingredient of the recipe a new item with its amount, or the
\* amount added to the item the list has
EnsureShoppingList(lists, items, meal_plan_id, recipe_id) ==
    LET created == ~\E i \in 1..Len(lists) : lists[i].meal_plan_id = meal_plan_id
        listed == IF created THEN Append(lists, ListRow(Len(lists) + 1, meal_plan_id))
                  ELSE lists
        shopping_list == listed[CHOOSE i \in 1..Len(listed) :
                                    listed[i].meal_plan_id = meal_plan_id]
        given == WebRecipes[recipe_id]
        Has(rows, ingredient) ==
            \E i \in 1..Len(rows) : /\ rows[i].shopping_list_id = shopping_list.id
                                    /\ rows[i].ingredient_id = ingredient.id
        RECURSIVE Each(_, _)
        Each(rows, k) ==
            IF k > Len(given) THEN rows
            ELSE IF ~Has(rows, given[k])
            THEN Each(Append(rows, ItemRow(shopping_list.id, given[k].id, given[k].amount)),
                      k + 1)
            ELSE IF given[k].amount.t = "none" THEN Each(rows, k + 1)
            ELSE Each([i \in 1..Len(rows) |->
                          IF /\ rows[i].shopping_list_id = shopping_list.id
                             /\ rows[i].ingredient_id = given[k].id
                          THEN [rows[i] EXCEPT !.quantity =
                                    PyFloat((IF Truthy(@) THEN @.n ELSE 0) + given[k].amount.n)]
                          ELSE rows[i]],
                      k + 1)
    IN [lists |-> listed, items |-> Each(items, 1)]

\* add_recipe_to_meal_plan as the two views call it: the message raised, "none"
\* for None, "integrity" for the IntegrityError of a row that exists, else "ok"
WebAddRecipe(plans, links, meal_plan_id, recipe_id, day, meal_type) ==
    IF ~Truthy(day) THEN "'day' is required"
    ELSE IF ~Truthy(meal_type) THEN "'meal_type' is required"
    ELSE IF ~\E p \in plans : p.id = meal_plan_id THEN "none"
    ELSE IF \E i \in 1..Len(links) : links[i] = LinkRow(meal_plan_id, recipe_id, day, meal_type)
    THEN "integrity"
    ELSE "ok"

\* the request is counted and answered
Answered(form, flash) ==
    /\ wbRequests < MaxRequests
    /\ wbRequests' = wbRequests + 1
    /\ wbLast' = [form |-> form, flash |-> flash]

\* add_to_meal_plan_from_recipe
AddToMealPlanFromRecipe(form) ==
    /\ form.kind = "add"
    /\ LET meal_plan_id == MealPlanIdOf(form.meal_plan_id)
           added == WebAddRecipe(wbPlans, wbLinks, meal_plan_id, form.recipe_id, form.day,
                                 form.meal_type)
           ensured == EnsureShoppingList(wbLists, wbItems, meal_plan_id, form.recipe_id)
       IN IF form.recipe_id \notin DOMAIN WebRecipes
          THEN /\ Answered(form, "404")
               /\ UNCHANGED <<wbPlans, wbLinks, wbLists, wbItems>>
          ELSE IF added = "integrity"
          THEN /\ Answered(form, "500")
               /\ UNCHANGED <<wbPlans, wbLinks, wbLists, wbItems>>
          ELSE IF added = "none"
          THEN /\ Answered(form, "Meal plan not found.")
               /\ UNCHANGED <<wbPlans, wbLinks, wbLists, wbItems>>
          ELSE IF added # "ok"
          THEN /\ Answered(form, added)
               /\ UNCHANGED <<wbPlans, wbLinks, wbLists, wbItems>>
          ELSE /\ Answered(form, "Recipe added to meal plan.")
               /\ wbLinks' = Append(wbLinks, LinkRow(meal_plan_id, form.recipe_id, form.day,
                                                     form.meal_type))
               /\ IF ParseBoolean(form.create_shopping_list)
                  THEN wbLists' = ensured.lists /\ wbItems' = ensured.items
                  ELSE UNCHANGED <<wbLists, wbItems>>
               /\ UNCHANGED wbPlans
    /\ UNCHANGED besideWeb

\* add_to_new_meal_plan: create_meal_plan commits the meal plan, then
\* add_recipe_to_meal_plan is called
AddToNewMealPlan(form) ==
    /\ form.kind = "new"
    /\ LET start == ParseDate(form.start_date)
           meal_plan == MealRow(NextId(wbPlans), form.name, start.value, PyNone)
           added == WebAddRecipe(wbPlans \cup {meal_plan}, wbLinks, meal_plan.id,
                                 form.recipe_id, form.day, form.meal_type)
           ensured == EnsureShoppingList(wbLists, wbItems, meal_plan.id, form.recipe_id)
       IN IF form.recipe_id \notin DOMAIN WebRecipes
          THEN /\ Answered(form, "404")
               /\ UNCHANGED <<wbPlans, wbLinks, wbLists, wbItems>>
          ELSE IF ~Truthy(form.name)
          THEN /\ Answered(form, "'name' is a required field")
               /\ UNCHANGED <<wbPlans, wbLinks, wbLists, wbItems>>
          ELSE IF start.raised
          THEN /\ Answered(form, DatesMessage)
               /\ UNCHANGED <<wbPlans, wbLinks, wbLists, wbItems>>
          ELSE IF added # "ok"
          THEN /\ Answered(form, added)
               /\ wbPlans' = wbPlans \cup {meal_plan}
               /\ UNCHANGED <<wbLinks, wbLists, wbItems>>
          ELSE /\ Answered(form, "Meal plan created and recipe added.")
               /\ wbPlans' = wbPlans \cup {meal_plan}
               /\ wbLinks' = Append(wbLinks, LinkRow(meal_plan.id, form.recipe_id, form.day,
                                                     form.meal_type))
               /\ IF ParseBoolean(form.create_shopping_list)
                  THEN wbLists' = ensured.lists /\ wbItems' = ensured.items
                  ELSE UNCHANGED <<wbLists, wbItems>>
    /\ UNCHANGED besideWeb

IdleWeb ==
    /\ wbPlans = {}
    /\ wbLinks = <<>>
    /\ wbLists = <<>>
    /\ wbItems = <<>>
    /\ wbRequests = 0
    /\ wbLast = [form |-> NoForm, flash |-> "none"]

(***************************************************************************)
(* database.get_db_session and database.get_engine                         *)
(***************************************************************************)
\* get_db_session: max_retries
max_retries == 3

\* what the connection answers to create_all and to SELECT 1: success, one of
\* the two errors that are caught, or another error
Answers == {"ok", "OperationalError", "DisconnectionError", "other"}

SessionInit ==
    /\ dbPc = "idle"
    /\ dbAttempt = 0
    /\ dbDelay = 1
    /\ dbEngine \in {0, 1}
    /\ dbBuilt = dbEngine
    /\ dbSlept = <<>>
    /\ dbError = "none"
    /\ dbSession = 0
    /\ dbCalls = 0

\* get_db_session is called: max_retries = 3, retry_delay = 1, the first turn of
\* the loop
GetDbSession ==
    /\ dbPc \in {"idle", "returned", "raised"}
    /\ dbCalls < MaxSessions
    /\ dbCalls' = dbCalls + 1
    /\ dbPc' = "engine"
    /\ dbAttempt' = 0
    /\ dbDelay' = 1
    /\ dbSlept' = <<>>
    /\ dbError' = "none"
    /\ dbSession' = 0
    /\ UNCHANGED <<dbEngine, dbBuilt, besideSession>>

\* engine = get_engine(): the cached engine, or a new one that is cached before
\* create_all connects
GetEngine(answer) ==
    /\ dbPc = "engine"
    /\ IF dbEngine # 0
       THEN /\ answer = "ok"
            /\ dbPc' = "connect"
            /\ UNCHANGED <<dbEngine, dbBuilt, dbError>>
       ELSE /\ dbBuilt' = dbBuilt + 1
            /\ dbEngine' = dbBuilt + 1
            /\ dbError' = IF answer = "ok" THEN dbError ELSE answer
            /\ dbPc' = CASE answer = "ok" -> "connect"
                         [] answer = "other" -> "raised"
                         [] OTHER -> "except"
    /\ UNCHANGED <<dbAttempt, dbDelay, dbSlept, dbSession, dbCalls, besideSession>>

\* Session(); session.execute(text("SELECT 1")); return session
TestConnection(answer) ==
    /\ dbPc = "connect"
    /\ dbError' = IF answer = "ok" THEN dbError ELSE answer
    /\ dbSession' = IF answer = "ok" THEN dbEngine ELSE dbSession
    /\ dbPc' = CASE answer = "ok" -> "returned"
                 [] answer = "other" -> "raised"
                 [] OTHER -> "except"
    /\ UNCHANGED <<dbAttempt, dbDelay, dbEngine, dbBuilt, dbSlept, dbCalls, besideSession>>

\* faulty variant: the cached engine is kept for the next attempt
HandleFailureKeepsEngine ==
    /\ dbPc = "except"
    /\ IF dbAttempt < max_retries - 1
       THEN /\ dbSlept' = Append(dbSlept, dbDelay)
            /\ dbDelay' = dbDelay * 2
            /\ dbEngine' = dbEngine
            /\ dbAttempt' = dbAttempt + 1
            /\ dbPc' = "engine"
       ELSE /\ dbPc' = "raised"
            /\ UNCHANGED <<dbSlept, dbDelay, dbEngine, dbAttempt>>
    /\ UNCHANGED <<dbBuilt, dbError, dbSession, dbCalls, besideSession>>

\* except (OperationalError, DisconnectionError): sleep, double the delay, reset
\* the engine and take the next turn of the loop, or raise at the last attempt
HandleFailure ==
    /\ dbPc = "except"
    /\ IF dbAttempt < max_retries - 1
       THEN /\ dbSlept' = Append(dbSlept, dbDelay)
            /\ dbDelay' = dbDelay * 2
            /\ dbEngine' = 0
            /\ dbAttempt' = dbAttempt + 1
            /\ dbPc' = "engine"
       ELSE /\ dbPc' = "raised"
            /\ UNCHANGED <<dbSlept, dbDelay, dbEngine, dbAttempt>>
    /\ UNCHANGED <<dbBuilt, dbError, dbSession, dbCalls, besideSession>>

IdleSession ==
    /\ dbPc = "idle"
    /\ dbAttempt = 0
    /\ dbDelay = 1
    /\ dbEngine = 0
    /\ dbBuilt = 0
    /\ dbSlept = <<>>
    /\ dbError = "none"
    /\ dbSession = 0
    /\ dbCalls = 0

(***************************************************************************)
(* Specifications                                                          *)
(***************************************************************************)
IdleIngredient == ingLine = [prefix |-> <<>>, toks |-> <<>>, sep |-> <<" ">>, line |-> <<>>]
                  /\ ingOut = NotParsed
IdleNutrition == nutIn = <<>> /\ nutOut = NotCalculated /\ nutNorm = <<>>
IdleLookup == lookName = <<>> /\ lookOut = NotLookedUp
IdleCalls ==
    /\ nutrition_db = NUTRITION_DB
    /\ unit_to_grams = UNIT_TO_GRAMS
    /\ calls = [c \in Callers |-> Frame(<<>>, "idle")]
IdleMeal ==
    /\ mpPc = "idle"
    /\ mpReq = [op |-> "none", id |-> 0,
                body |-> [json |-> FALSE, name |-> PyAbsent, start_date |-> PyAbsent,
                          end_date |-> PyAbsent]]
    /\ mpStore = StoredMealPlans
    /\ mpObj = NoMealPlan
    /\ mpError = ""
    /\ mpResponse = NoMealResponse
IdleRecipe ==
    /\ rcPc = "idle"
    /\ rcReq = [via |-> "none",
                body |-> [json |-> FALSE, title |-> PyAbsent, description |-> PyAbsent,
                          ingredients |-> [given |-> FALSE, items |-> <<>>],
                          nutrition |-> [given |-> FALSE, calories |-> PyAbsent]]]
    /\ rcStore = StoredRecipes
    /\ rcObj = NothingPending
    /\ rcError = ""
    /\ rcResponse = NoRecipeResponse
IdleScrape ==
    /\ pc = "idle"
    /\ payload = [json |-> FALSE, url |-> PyAbsent]
    /\ url = PyNone
    /\ downloaded = PyNone
    /\ text = [isNone |-> TRUE, raw |-> <<>>]
    /\ fetchCalls = 0 /\ extractCalls = 0 /\ parseCalls = 0
    /\ lines = <<>> /\ idx = 0
    /\ title = <<>> /\ description = <<>>
    /\ ingredients = <<>> /\ instructions = <<>>
    /\ prep_time = PyNone /\ cook_time = PyNone /\ servings = PyNone
    /\ section = "none"
    /\ error = ""
    /\ result = <<>>
    /\ response = NoResponse

Init == ScrapeInit /\ IdleIngredient /\ IdleNutrition /\ IdleLookup /\ IdleCalls /\ IdleMeal /\ IdleRecipe /\ IdleStore /\ IdleWeb /\ IdleSession

Next ==
    \/ RouteScrape
    \/ ScrapeCheckUrl
    \/ ScrapeFetch
    \/ ScrapeExtract
    \/ ParseStart
    \/ ParseIngredientsHeader
    \/ ParseInstructionsHeader
    \/ ParsePrepTime
    \/ ParseCookTime
    \/ ParseServings
    \/ ParseIngredientLine
    \/ ParseInstructionLine
    \/ ParseDescription
    \/ ParseSkipLine
    \/ ParseFinish
    \/ RouteCatch
    \/ RouteReturn

\* a request to POST /api/scrape
Spec == Init /\ [][Next]_vars

\* the lines of a text whose sections alternate
SectionLines == {LineIngredientsHeader, LineInstructionsHeader, LineFlour, LineMix}

\* a request for which trafilatura.extract returned a title and such lines
SectionsInit ==
    /\ pc = "parse"
    /\ payload = [json |-> TRUE, url |-> PyStr(SomeUrl)]
    /\ url = PyStr(SomeUrl)
    /\ downloaded = PyStr(<<"<", "p", ">">>)
    /\ \E body \in UNION {[1..n -> SectionLines] : n \in 0..MaxSectionLines} :
          text = [isNone |-> FALSE, raw |-> <<LineCake>> \o body]
    /\ fetchCalls = 1 /\ extractCalls = 1 /\ parseCalls = 0
    /\ lines = <<>> /\ idx = 0
    /\ title = <<>> /\ description = <<>>
    /\ ingredients = <<>> /\ instructions = <<>>
    /\ prep_time = PyNone /\ cook_time = PyNone /\ servings = PyNone
    /\ section = "none"
    /\ error = ""
    /\ result = <<>>
    /\ response = NoResponse

InitSections == SectionsInit /\ IdleIngredient /\ IdleNutrition /\ IdleLookup /\ IdleCalls /\ IdleMeal /\ IdleRecipe /\ IdleStore /\ IdleWeb /\ IdleSession
NextSections ==
    \/ ParseStart
    \/ ParseIngredientsHeader
    \/ ParseInstructionsHeader
    \/ ParseIngredientLine
    \/ ParseInstructionLine
    \/ ParseDescription
    \/ ParseSkipLine
    \/ ParseFinish
    \/ RouteReturn
\* _parse_extracted_text on a text whose sections alternate
SpecSections == InitSections /\ [][NextSections]_vars

InitIngredient == IngredientInit /\ IdleScrape /\ IdleNutrition /\ IdleLookup /\ IdleCalls /\ IdleMeal /\ IdleRecipe /\ IdleStore /\ IdleWeb /\ IdleSession
NextIngredient == ParseIngredientCall
\* one call of _parse_ingredient
SpecIngredient == InitIngredient /\ [][NextIngredient]_vars

InitNutrition == NutritionInit /\ IdleScrape /\ IdleIngredient /\ IdleLookup /\ IdleCalls /\ IdleMeal /\ IdleRecipe /\ IdleStore /\ IdleWeb /\ IdleSession
NextNutrition == CalculateNutritionCall
\* one call of calculate_nutrition
SpecNutrition == InitNutrition /\ [][NextNutrition]_vars

InitLookup == LookupInit /\ IdleScrape /\ IdleIngredient /\ IdleNutrition /\ IdleCalls /\ IdleMeal /\ IdleRecipe /\ IdleStore /\ IdleWeb /\ IdleSession
NextLookup == LookupProfileCall
\* one call of _lookup_profile
SpecLookup == InitLookup /\ [][NextLookup]_vars

InitCalls == CallsInit /\ IdleScrape /\ IdleIngredient /\ IdleNutrition /\ IdleLookup /\ IdleMeal /\ IdleRecipe /\ IdleStore /\ IdleWeb /\ IdleSession
NextCalls == \E c \in Callers : CallNormalise(c) \/ CallAccumulate(c) \/ CallReturn(c)
\* two calls of calculate_nutrition, their steps interleaved in every way
SpecCalls == InitCalls /\ [][NextCalls]_vars

InitMeal ==
    MealInit /\ IdleScrape /\ IdleIngredient /\ IdleNutrition /\ IdleLookup /\ IdleCalls
        /\ IdleRecipe /\ IdleStore /\ IdleWeb /\ IdleSession
NextMeal ==
    \/ RouteCreateMealPlan
    \/ CreateCheckName
    \/ CreateParseDates
    \/ CreateCommit
    \/ RouteCreateMealPlanCatch
    \/ RouteCreateMealPlanReturn
    \/ RouteUpdateMealPlan
    \/ UpdateFind
    \/ UpdateName
    \/ UpdateStartDate
    \/ UpdateEndDate
    \/ UpdateCommit
    \/ RouteUpdateMealPlanRaises
    \/ RouteUpdateMealPlanReturn
\* a request to POST /api/meal-plans or PUT /api/meal-plans/<id>
SpecMeal == InitMeal /\ [][NextMeal]_vars

InitRecipe ==
    RecipeInit /\ IdleScrape /\ IdleIngredient /\ IdleNutrition /\ IdleLookup /\ IdleCalls
        /\ IdleMeal /\ IdleStore /\ IdleWeb /\ IdleSession
NextRecipe ==
    \/ RouteCreateRecipe
    \/ CreateRecipeCheckTitle
    \/ CreateRecipeBuild
    \/ CreateRecipeCommit
    \/ RouteCreateRecipeCatch
    \/ RouteCreateRecipeReturn
\* a request to POST /api/recipes, or a direct call of RecipeService.create_recipe
SpecRecipe == InitRecipe /\ [][NextRecipe]_vars

InitStore ==
    StoreInit /\ IdleScrape /\ IdleIngredient /\ IdleNutrition /\ IdleLookup /\ IdleCalls
        /\ IdleMeal /\ IdleRecipe /\ IdleWeb /\ IdleSession
NextStore ==
    \/ \E data \in RecipeData : StoreCreateRecipe(data)
    \/ \E id \in RecipeIds, data \in RecipeData : UpdateRecipe(id, data)
    \/ \E id \in RecipeIds : DeleteRecipe(id)
    \/ \E id \in RecipeIds, rendered \in BOOLEAN : GeneratePdf(id, rendered)
    \/ \E id \in MealPlanIds, data \in MealPlanData : StoreUpdateMealPlan(id, data)
    \/ \E id \in MealPlanIds : StoreDeleteMealPlan(id)
    \/ \E id \in MealPlanIds, recipe_id \in RecipeIds, day \in DayArgs,
          meal_type \in MealTypeArgs : AddRecipeToMealPlan(id, recipe_id, day, meal_type)
    \/ \E id \in MealPlanIds, recipe_id \in RecipeIds, day \in DayArgs,
          meal_type \in MealTypeArgs : RemoveRecipeFromMealPlan(id, recipe_id, day, meal_type)
    \/ \E id \in MealPlanIds : GetMealPlanWithRecipes(id)
    \/ RemoveSession
\* calls of the two services, one after the other, through one session
SpecStore == InitStore /\ [][NextStore]_vars

InitWeb ==
    WebInit /\ IdleScrape /\ IdleIngredient /\ IdleNutrition /\ IdleLookup /\ IdleCalls
        /\ IdleMeal /\ IdleRecipe /\ IdleStore /\ IdleSession
NextWeb ==
    \/ \E form \in AddForms : AddToMealPlanFromRecipe(form)
    \/ \E form \in NewForms : AddToNewMealPlan(form)
\* requests to the two views, one after the other
SpecWeb == InitWeb /\ [][NextWeb]_vars

InitSession ==
    SessionInit /\ IdleScrape /\ IdleIngredient /\ IdleNutrition /\ IdleLookup /\ IdleCalls
        /\ IdleMeal /\ IdleRecipe /\ IdleStore /\ IdleWeb
\* the steps of a call of get_db_session
StepSession ==
    \/ \E answer \in Answers : GetEngine(answer)
    \/ \E answer \in Answers : TestConnection(answer)
    \/ HandleFailure
NextSession == GetDbSession \/ StepSession
\* calls of get_db_session, one after the other; a call that has begun goes on:
\* sleep returns and the connection answers
SpecSession == InitSession /\ [][NextSession]_vars /\ WF_vars(StepSession)


(***************************************************************************)
(* What the properties say about the input, stated on the input itself.    *)
(***************************************************************************)
\* the line starts, case-insensitively, with the prefix
HasPrefix(line, prefix) ==
    /\ Len(line) >= Len(prefix)
    /\ \A i \in 1..Len(prefix) : LowerChar(line[i]) = prefix[i]

IsHeader(line) ==
    \/ HasPrefix(line, <<"i", "n", "g", "r", "e", "d", "i", "e", "n", "t", "s">>)
    \/ HasPrefix(line, <<"i", "n", "s", "t", "r", "u", "c", "t", "i", "o", "n", "s">>)

IsMetadata(line) ==
    \/ HasPrefix(line, <<"p", "r", "e", "p", " ", "t", "i", "m", "e">>)
    \/ HasPrefix(line, <<"c", "o", "o", "k", " ", "t", "i", "m", "e">>)
    \/ HasPrefix(line, <<"s", "e", "r", "v", "i", "n", "g", "s">>)

IsContent(line) == ~IsHeader(line) /\ ~IsMetadata(line)

\* the non-blank lines of a text, each without its surrounding whitespace
NonBlank(raw) ==
    SelectSeq([i \in 1..Len(raw) |-> Strip(raw[i])], LAMBDA s : s # <<>>)

\* the section mode in which line i of ls is read: that of the last header before it
SectionBefore(ls, i) ==
    LET hs == {j \in 2..(i - 1) : IsHeader(ls[j])}
    IN IF hs = {} THEN "none"
       ELSE LET last == CHOOSE j \in hs : \A k \in hs : k <= j
            IN IF HasPrefix(ls[last], <<"i", "n", "g">>) THEN "ingredients"
               ELSE "instructions"

\* the content lines among lines 2..upto of ls that are read in the given mode
ContentLines(ls, upto, mode) ==
    {i \in 2..upto : i <= Len(ls) /\ IsContent(ls[i]) /\ SectionBefore(ls, i) = mode}

\* _parse_extracted_text was called and the request is past it
Parsed == parseCalls = 1 /\ pc \in {"raised", "returned", "responded"}

\* the tokens written as numbers, and the number each one writes, in tenths
IsNumber(tok) == tok \in {<<"1">>, <<"2", ".", "5">>, <<"-", "1">>}
NumberValue(tok) ==
    CASE tok = <<"1">> -> 10
      [] tok = <<"2", ".", "5">> -> 25
      [] tok = <<"-", "1">> -> 0 - 10

\* the tokens of the ingredient line once its bullet marker is taken away
GivenTokens ==
    LET toks == ingLine.toks
    IN IF ingLine.prefix = <<>> /\ toks # <<>> /\ toks[1][1] \in BulletChars
       THEN (IF Len(toks[1]) = 1 THEN <<>> ELSE <<Tail(toks[1])>>) \o Tail(toks)
       ELSE toks

\* the ingredient line once its bullet marker is taken away
GivenLine == Join(GivenTokens, ingLine.sep)

\* the line is '<amount> <unit> <name>', bare or after a '- ' bullet
AmountUnitName ==
    /\ ingLine.prefix \in {<<>>, <<"-", " ">>}
    /\ ingLine.sep = <<" ">>
    /\ Len(ingLine.toks) >= 3
    /\ IsNumber(ingLine.toks[1])

\* the record that round trip gives back
RoundTrip ==
    /\ ingOut.amount = PyFloat(NumberValue(ingLine.toks[1]))
    /\ ingOut.unit = PyStr(ingLine.toks[2])
    /\ ingOut.name = PyStr(Join(SubSeq(ingLine.toks, 3, Len(ingLine.toks)), <<" ">>))

(***************************************************************************)
(* Properties                                                              *)
(***************************************************************************)
\* C1: in the loop of _parse_extracted_text each step takes exactly one line, and
\* a line that starts with a header or metadata prefix is never appended to the
\* ingredients or to the instructions and never becomes the description, in any
\* section mode; a header line sets the mode it names.
C1_HeaderAndMetadataLinesAreNeverContent ==
    [][(pc = "loop" /\ idx <= Len(lines))
        => /\ idx' = idx + 1
           /\ (~IsContent(lines[idx])
                 => /\ ingredients' = ingredients
                    /\ instructions' = instructions
                    /\ description' = description)
           /\ (HasPrefix(lines[idx], <<"i", "n", "g", "r", "e", "d", "i", "e", "n", "t", "s">>)
                 => section' = "ingredients")
           /\ (HasPrefix(lines[idx], <<"i", "n", "s", "t", "r", "u", "c", "t", "i", "o", "n", "s">>)
                 => section' = "instructions")
           /\ (IsMetadata(lines[idx]) => section' = section)]_vars

\* C1 witness: a metadata line was read in ingredients mode and set only its field
C1_Witness ==
    /\ pc = "loop"
    /\ idx = 4
    /\ IsHeader(lines[2])
    /\ IsMetadata(lines[3])
    /\ section = "ingredients"
    /\ prep_time = PyInt(10)
    /\ ingredients = <<>>

\* C2 as claimed: every total returned by calculate_nutrition is >= 0
C2_TotalsAreNonNegative ==
    (nutOut.called /\ nutOut.raised = "")
        => \A key \in DEFAULT_KEYS : nutOut.totals[1][key] >= 0

\* C3 as claimed: every line '<amount> <unit> <name>', bare or after '- ', gives
\* back exactly that amount, that unit and that name
C3_RoundTripAnyNumber ==
    (ingOut.called /\ AmountUnitName) => RoundTrip

\* C3: a line '<amount> <unit> <name>' whose amount is written without a leading
\* '-', bare or after a '- ' bullet, gives back that amount, that unit and that name
C3_RoundTrip ==
    (ingOut.called /\ AmountUnitName /\ ingLine.toks[1][1] # "-") => RoundTrip

\* C3 witness: '- 1 cup flour' gave flour / 1.0 / cup
C3_Witness ==
    /\ ingOut.called
    /\ ingLine.line = <<"-", " ", "1", " ", "c", "u", "p", " ", "f", "l", "o", "u", "r">>
    /\ ingOut.name = PyStr(<<"f", "l", "o", "u", "r">>)
    /\ ingOut.amount = PyFloat(10)
    /\ ingOut.unit = PyStr(<<"c", "u", "p">>)

\* the description the parser is to give: the first content line after the title
FirstContentLine(ls) ==
    LET cs == {i \in 2..Len(ls) : IsContent(ls[i])}
    IN IF cs = {} THEN <<>> ELSE ls[CHOOSE i \in cs : \A j \in cs : i <= j]

NoHeaderLine == \A i \in 1..Len(NonBlank(text.raw)) : ~IsHeader(NonBlank(text.raw)[i])

\* C4 as claimed: a text with a non-blank line and without header lines parses without raising,
\* to no ingredients, no instructions, the first non-blank line as title and the
\* second non-blank line as description
C4_SecondLineIsDescription ==
    (Parsed /\ NoHeaderLine /\ NonBlank(text.raw) # <<>>)
        => /\ error = ""
           /\ result # <<>>
           /\ result[1].ingredients = <<>>
           /\ result[1].instructions = <<>>
           /\ result[1].title = NonBlank(text.raw)[1]
           /\ (Len(NonBlank(text.raw)) >= 2
                 => result[1].description = NonBlank(text.raw)[2])

\* C4: a text with a non-blank line and without header lines parses without
\* raising, to no ingredients, no instructions, the first non-blank line as title
\* and, as description, the first later line that is not a metadata line ("" when
\* there is none)
C4_FirstContentLineIsDescription ==
    (Parsed /\ NoHeaderLine /\ NonBlank(text.raw) # <<>>)
        => /\ error = ""
           /\ result # <<>>
           /\ result[1].ingredients = <<>>
           /\ result[1].instructions = <<>>
           /\ result[1].title = NonBlank(text.raw)[1]
           /\ result[1].description = FirstContentLine(NonBlank(text.raw))

\* C4 witness: the second line was a metadata line and the third the description
C4_Witness ==
    /\ pc = "returned"
    /\ NoHeaderLine
    /\ Len(NonBlank(text.raw)) >= 3
    /\ IsMetadata(NonBlank(text.raw)[2])
    /\ result[1].description = NonBlank(text.raw)[3]
    /\ result[1].title = <<"C", "a", "k", "e">>

\* C5: _scrape fails at the first of: empty URL, failed fetch, empty extraction,
\* no non-blank line; each with its own message, with no later step made, and the
\* route answers 400 with that message.
C5_FirstFailedPreconditionRaises ==
    /\ (error = "A URL must be provided"
          => ~Truthy(url) /\ fetchCalls = 0 /\ extractCalls = 0 /\ parseCalls = 0)
    /\ (error = "Unable to retrieve the requested URL"
          => /\ Truthy(url) /\ fetchCalls = 1 /\ ~Truthy(downloaded)
             /\ extractCalls = 0 /\ parseCalls = 0)
    /\ (error = "Unable to extract recipe content from the page"
          => /\ Truthy(url) /\ fetchCalls = 1 /\ Truthy(downloaded)
             /\ extractCalls = 1 /\ (text.isNone \/ text.raw = <<>>)
             /\ parseCalls = 0)
    /\ (error = "Extracted content was empty"
          => /\ Truthy(url) /\ fetchCalls = 1 /\ Truthy(downloaded)
             /\ extractCalls = 1 /\ ~text.isNone /\ text.raw # <<>>
             /\ parseCalls = 1 /\ NonBlank(text.raw) = <<>>)
    /\ (pc = "responded" /\ payload.json /\ payload.url.t # "absent")
          => response =
                IF ~Truthy(payload.url)
                THEN [status |-> 400, message |-> "A URL must be provided"]
                ELSE IF ~Truthy(downloaded)
                THEN [status |-> 400, message |-> "Unable to retrieve the requested URL"]
                ELSE IF text.isNone \/ text.raw = <<>>
                THEN [status |-> 400,
                      message |-> "Unable to extract recipe content from the page"]
                ELSE IF NonBlank(text.raw) = <<>>
                THEN [status |-> 400, message |-> "Extracted content was empty"]
                ELSE [status |-> 200, message |-> ""]

\* C5 witness: the last precondition failed and the route answered 400 with its message
C5_Witness ==
    /\ pc = "responded"
    /\ response = [status |-> 400, message |-> "Extracted content was empty"]
    /\ fetchCalls = 1 /\ extractCalls = 1 /\ parseCalls = 1

\* C6 as claimed: a line that is one numeric token gives that number, no unit and
\* the empty name
C6_NumberOnlyGivesEmptyName ==
    (ingOut.called /\ ingLine.prefix = <<>> /\ Len(ingLine.toks) = 1
       /\ IsNumber(ingLine.toks[1]))
        => /\ ingOut.amount = PyFloat(NumberValue(ingLine.toks[1]))
           /\ ingOut.unit = PyNone
           /\ ingOut.name = PyStr(<<>>)

\* C6: a line that is one numeric token written without a leading '-' gives that
\* number, no unit and the token itself as name
C6_NumberOnlyGivesTheLine ==
    (ingOut.called /\ ingLine.prefix = <<>> /\ Len(ingLine.toks) = 1
       /\ IsNumber(ingLine.toks[1]) /\ ingLine.toks[1][1] # "-")
        => /\ ingOut.amount = PyFloat(NumberValue(ingLine.toks[1]))
           /\ ingOut.unit = PyNone
           /\ ingOut.name = PyStr(ingLine.toks[1])

\* C6 witness: '2.5' gave 2.5 and the name '2.5'
C6_Witness ==
    /\ ingOut.called
    /\ ingLine.line = <<"2", ".", "5">>
    /\ ingOut.amount = PyFloat(25)
    /\ ingOut.name = PyStr(<<"2", ".", "5">>)

\* C7: when the first token (bullet marker taken away) is a number and no name
\* token remains, the name is the unit token, and the line (bullet marker taken
\* away) when there is no unit token either
C7_NameFallsBackToUnitThenLine ==
    (ingOut.called /\ GivenTokens # <<>> /\ IsNumber(GivenTokens[1])
       /\ Len(GivenTokens) <= 2)
        => /\ ingOut.amount = PyFloat(NumberValue(GivenTokens[1]))
           /\ (Len(GivenTokens) = 2
                 => /\ ingOut.unit = PyStr(GivenTokens[2])
                    /\ ingOut.name = PyStr(GivenTokens[2]))
           /\ (Len(GivenTokens) = 1
                 => /\ ingOut.unit = PyNone
                    /\ ingOut.name = PyStr(GivenLine))

\* C7 witness: '1 cup' gave amount 1.0, unit 'cup' and name 'cup'
C7_Witness ==
    /\ ingOut.called
    /\ ingLine.line = <<"1", " ", "c", "u", "p">>
    /\ ingOut.amount = PyFloat(10)
    /\ ingOut.unit = PyStr(<<"c", "u", "p">>)
    /\ ingOut.name = PyStr(<<"c", "u", "p">>)

\* C8: when the first token (bullet marker taken away) is no number, the amount
\* and the unit are absent and the name is all the tokens joined by single spaces
C8_NoNumberGivesNameOnly ==
    (ingOut.called /\ GivenTokens # <<>> /\ ~IsNumber(GivenTokens[1]))
        => /\ ingOut.amount = PyNone
           /\ ingOut.unit = PyNone
           /\ ingOut.name = PyStr(Join(GivenTokens, <<" ">>))

\* C8 witness: 'cup  1  flour' gave the name 'cup 1 flour', no amount and no unit
C8_Witness ==
    /\ ingOut.called
    /\ ingLine.sep = <<" ", " ">>
    /\ ingLine.toks = <<<<"c", "u", "p">>, <<"1">>, <<"f", "l", "o", "u", "r">>>>
    /\ ingOut.name = PyStr(<<"c", "u", "p", " ", "1", " ", "f", "l", "o", "u", "r">>)
    /\ ingOut.amount = PyNone

\* C9: a text with a non-blank line never makes _parse_extracted_text raise; every
\* content line read in ingredients mode gives exactly one ingredient record, and
\* the nutrition estimator accepts the list
C9_DegenerateIngredientLinesAreTolerated ==
    /\ (parseCalls = 1 /\ NonBlank(text.raw) # <<>>) => error = ""
    /\ pc = "loop"
          => Len(ingredients) = Cardinality(ContentLines(lines, idx - 1, "ingredients"))
    /\ (pc = "returned" \/ (pc = "responded" /\ parseCalls = 1 /\ error = ""))
          => /\ result # <<>>
             /\ Len(result[1].ingredients)
                   = Cardinality(ContentLines(lines, Len(lines), "ingredients"))
             /\ DOMAIN result[1].nutrition = DEFAULT_KEYS

\* C9 witness: a bullet-only line and a number-only line each gave a record
C9_Witness ==
    /\ pc = "returned"
    /\ Len(result[1].ingredients) = 2
    /\ \E i \in 1..2 : /\ result[1].ingredients[i].amount = PyNone
                       /\ result[1].ingredients[i].name = PyStr(<<>>)
    /\ \E i \in 1..2 : /\ result[1].ingredients[i].amount = PyFloat(20)
                       /\ result[1].ingredients[i].unit = PyNone

\* C10: the description is set at most once, to the first content line read in
\* mode none, and never after a header, because the mode never returns to none
C10_DescriptionIsSetOnce ==
    [][/\ (description # <<>> => description' = description)
       /\ (section # "none" => section' # "none")
       /\ (description' # description
             => /\ pc = "loop"
                /\ section = "none" /\ section' = "none"
                /\ IsContent(lines[idx])
                /\ description' = lines[idx]
                /\ ContentLines(lines, idx - 1, "none") = {}
                /\ \A j \in 2..(idx - 1) : ~IsHeader(lines[j]))
       /\ (pc = "loop" /\ idx <= Len(lines) /\ IsContent(lines[idx])
             /\ SectionBefore(lines, idx) = "none" /\ description = <<>>
             => description' = lines[idx])]_vars

\* C10 witness: the description was set, a later content line and a header were read
C10_Witness ==
    /\ pc = "returned"
    /\ Len(lines) = 4
    /\ description = lines[2]
    /\ IsContent(lines[3])
    /\ lines[3] # lines[2]
    /\ IsHeader(lines[4])
    /\ section # "none"

\* C11: a 'prep time', 'cook time' or 'servings' line changes its own field and
\* nothing else of the parse: the section mode, the ingredients, the instructions,
\* the description, the title and the two other fields stay; so the mode in which
\* a line is read is always that of the last header line before it, whatever
\* metadata lines stand between
C11_MetadataLineChangesOnlyItsField ==
    /\ [](pc = "loop" => section = SectionBefore(lines, idx))
    /\ [][(pc = "loop" /\ idx <= Len(lines) /\ IsMetadata(lines[idx]))
            => /\ section' = section
               /\ ingredients' = ingredients
               /\ instructions' = instructions
               /\ description' = description
               /\ title' = title
               /\ (HasPrefix(lines[idx], <<"p", "r", "e", "p">>)
                     => cook_time' = cook_time /\ servings' = servings)
               /\ (HasPrefix(lines[idx], <<"c", "o", "o", "k">>)
                     => prep_time' = prep_time /\ servings' = servings)
               /\ (HasPrefix(lines[idx], <<"s", "e", "r", "v">>)
                     => prep_time' = prep_time /\ cook_time' = cook_time)]_vars

\* C11 witness: a servings line stood between the instructions header and a
\* content line, and the content line was read as an instruction
C11_Witness ==
    /\ pc = "loop"
    /\ idx = 5
    /\ HasPrefix(lines[2], <<"i", "n", "s", "t", "r">>)
    /\ HasPrefix(lines[3], <<"s", "e", "r", "v">>)
    /\ IsContent(lines[4])
    /\ servings = PyInt(4)
    /\ section = "instructions"
    /\ Len(instructions) = 1
    /\ ingredients = <<>>

\* the content lines among lines 2..upto of ls that are read in the given mode,
\* in the order of the text
RECURSIVE ReadIn(_, _, _)
ReadIn(ls, upto, mode) ==
    IF upto < 2 THEN <<>>
    ELSE ReadIn(ls, upto - 1, mode)
            \o (IF upto \in ContentLines(ls, upto, mode) THEN <<ls[upto]>> ELSE <<>>)

\* the line from its first character that is not a digit, '.', '-', ')' or a space
WithoutLeadingMarks(line) ==
    LET marks == {"0", "1", "2", "3", "4", "5", "6", "7", "8", "9", ".", "-", ")", " "}
        keep == {i \in 1..Len(line) : line[i] \notin marks}
    IN IF keep = {} THEN <<>>
       ELSE SubSeq(line, CHOOSE i \in keep : \A j \in keep : i <= j, Len(line))

\* the instruction texts and the ingredient records that the lines 2..upto give
InstructionsUpTo(ls, upto) ==
    LET read == ReadIn(ls, upto, "instructions")
    IN [i \in 1..Len(read) |-> WithoutLeadingMarks(read[i])]
IngredientsUpTo(ls, upto) ==
    LET read == ReadIn(ls, upto, "ingredients")
    IN [i \in 1..Len(read) |-> ParseIngredient(read[i])]

\* C12: during the loop the two lists hold, in input order, what the content lines
\* read so far in instructions mode and in ingredients mode give, however often
\* the section changed; the result holds the ingredient records of all the text
\* and, as instructions, the texts of all the text joined by newlines ("" when
\* there is none)
C12_ListsAreAppendedInInputOrder ==
    /\ pc = "loop"
          => /\ instructions = InstructionsUpTo(NonBlank(text.raw), idx - 1)
             /\ ingredients = IngredientsUpTo(NonBlank(text.raw), idx - 1)
    /\ pc \in {"returned", "responded"}
          => /\ result # <<>>
             /\ result[1].ingredients
                   = IngredientsUpTo(NonBlank(text.raw), Len(NonBlank(text.raw)))
             /\ result[1].instructions
                   = Join(InstructionsUpTo(NonBlank(text.raw), Len(NonBlank(text.raw))),
                          <<"\n">>)
             /\ (ContentLines(NonBlank(text.raw), Len(NonBlank(text.raw)), "instructions") = {}
                   => result[1].instructions = <<>>)

\* C12 witness: an ingredients section, an instructions section and the
\* ingredients section again; the second ingredient was appended to the first
C12_Witness ==
    /\ pc = "returned"
    /\ text.raw = <<LineCake, LineIngredientsHeader, LineFlour, LineInstructionsHeader,
                    LineMix, LineIngredientsHeader, LineMix>>
    /\ Len(result[1].ingredients) = 2
    /\ result[1].ingredients[1].name = PyStr(<<"f", "l", "o", "u", "r">>)
    /\ result[1].ingredients[2].name = PyStr(<<"M", "i", "x">>)
    /\ result[1].instructions = <<"M", "i", "x">>

\* the keys of the nutrient table in the order the property gives
KeyOrder ==
    << <<"f", "l", "o", "u", "r">>, <<"s", "u", "g", "a", "r">>,
       <<"b", "u", "t", "t", "e", "r">>, <<"e", "g", "g">>, <<"m", "i", "l", "k">>,
       <<"o", "i", "l">>, <<"s", "a", "l", "t">> >>

\* the key stands somewhere inside the name
Occurs(key, name) ==
    \E at \in 1..Len(name) :
        /\ at + Len(key) - 1 <= Len(name)
        /\ \A k \in 1..Len(key) : name[at + k - 1] = key[k]

\* the keys, by their place in KeyOrder, that stand inside the name
KeysIn(name) == {i \in 1..Len(KeyOrder) : Occurs(KeyOrder[i], name)}

\* the profile the table holds for a key
ProfileOf(key) ==
    NUTRITION_DB[CHOOSE r \in 1..Len(NUTRITION_DB) : NUTRITION_DB[r].key = key].profile

\* C13: _lookup_profile returns the profile of the key that comes first, in the
\* order flour, sugar, butter, egg, milk, oil, salt, among the keys that occur in
\* the name, wherever they occur, and the all-zero profile when none occurs
C13_FirstKeyInTableOrderWins ==
    lookOut.called
        => IF KeysIn(lookName) = {}
           THEN \A key \in DEFAULT_KEYS : lookOut.profile[key] = 0
           ELSE lookOut.profile
                  = ProfileOf(KeyOrder[CHOOSE i \in KeysIn(lookName) :
                                          \A j \in KeysIn(lookName) : i <= j])

\* C13 witness: 'salt flour' holds salt before flour and got the flour profile
C13_Witness ==
    /\ lookOut.called
    /\ lookName = <<"s", "a", "l", "t", " ", "f", "l", "o", "u", "r">>
    /\ lookOut.profile.calories = 3640
    /\ lookOut.profile.sodium = 20

\* the capital letters
Capitals ==
    {"A", "B", "C", "D", "E", "F", "G", "H", "I", "J", "K", "L", "M",
     "N", "O", "P", "Q", "R", "S", "T", "U", "V", "W", "X", "Y", "Z"}

\* the item is a record whose amount is missing or falsy: None, 0, 0.0, ''
NoAmount(item) ==
    /\ item.kind = "dict"
    /\ \/ item.amount.t \in {"absent", "none"}
       \/ item.amount.t \in {"int", "float"} /\ item.amount.n = 0
       \/ item.amount.t = "str" /\ item.amount.s = <<>>

\* the list with one item left out
Without(items, i) == SubSeq(items, 1, i - 1) \o SubSeq(items, i + 1, Len(items))

\* C14: when calculate_nutrition returns, every entry was normalised to a name and
\* a unit without capital letters and a float amount; a bare string to amount 1.0
\* and unit 'unit', and alone it gives half of its profile; a record to amount 1.0
\* when its amount is missing or falsy and to unit 'g' when its unit is missing; a
\* record without name to the empty name, and the totals are those of the list
\* without it
C14_EntriesAreNormalised ==
    (nutOut.called /\ nutOut.raised = "")
        => /\ Len(nutNorm) = Len(nutIn)
           /\ \A i \in 1..Len(nutIn) :
                /\ \A k \in 1..Len(nutNorm[i].name) : nutNorm[i].name[k] \notin Capitals
                /\ \A k \in 1..Len(nutNorm[i].unit) : nutNorm[i].unit[k] \notin Capitals
                /\ nutIn[i].kind = "str"
                      => /\ nutNorm[i].name = Lower(nutIn[i].str)
                         /\ nutNorm[i].amount = 10
                         /\ nutNorm[i].unit = <<"u", "n", "i", "t">>
                /\ (nutIn[i].kind = "dict" /\ nutIn[i].name.t = "str")
                      => nutNorm[i].name = Lower(nutIn[i].name.s)
                /\ NoAmount(nutIn[i]) => nutNorm[i].amount = 10
                /\ (nutIn[i].kind = "dict" /\ nutIn[i].amount.t = "int")
                      => nutNorm[i].amount
                            = (IF nutIn[i].amount.n = 0 THEN 10 ELSE nutIn[i].amount.n * 10)
                /\ (nutIn[i].kind = "dict" /\ nutIn[i].unit.t = "absent")
                      => nutNorm[i].unit = <<"g">>
                /\ (nutIn[i].kind = "dict" /\ nutIn[i].unit.t = "str")
                      => nutNorm[i].unit = Lower(nutIn[i].unit.s)
                /\ (nutIn[i].kind = "dict" /\ nutIn[i].name.t = "absent")
                      => /\ nutNorm[i].name = <<>>
                         /\ nutOut.totals = CalculateNutrition(Without(nutIn, i)).totals
           /\ (Len(nutIn) = 1 /\ nutIn[1].kind = "str" /\ KeysIn(Lower(nutIn[1].str)) # {})
                 => \A key \in DEFAULT_KEYS :
                       nutOut.totals[1][key] * 2
                          = 10 * ProfileOf(KeyOrder[CHOOSE i \in KeysIn(Lower(nutIn[1].str)) :
                                \A j \in KeysIn(Lower(nutIn[1].str)) : i <= j])[key]

\* C14 witness: the bare string 'Flour' became flour / 1.0 / unit and gave half of
\* the flour profile (182 kcal)
C14_Witness ==
    /\ nutOut.called
    /\ nutIn = <<Bare(<<"F", "l", "o", "u", "r">>)>>
    /\ nutNorm[1].name = <<"f", "l", "o", "u", "r">>
    /\ nutNorm[1].amount = 10
    /\ nutNorm[1].unit = <<"u", "n", "i", "t">>
    /\ nutOut.totals[1].calories = 18200

\* profile[key] * grams of entries from..Len(normalised), added up; in
\* ten-thousandths once divided by 100
RECURSIVE Contributions(_, _, _)
Contributions(normalised, from, key) ==
    IF from > Len(normalised) THEN 0
    ELSE LookupProfile(normalised[from].name)[key]
            * ToGrams(normalised[from].amount, normalised[from].unit)
         + Contributions(normalised, from + 1, key)

\* hundredths is exact, in ten-thousandths, to 2 decimals
RoundedTo2(hundredths, exact) ==
    /\ hundredths * 100 - exact <= 50
    /\ exact - hundredths * 100 <= 50

\* C15: calculate_nutrition returns exactly the seven keys, each with the sum over
\* the ingredients of profile[key] * grams / 100 rounded to 2 decimals; the empty
\* list gives 0 for every key, and 100 g of flour alone gives the flour profile
C15_TotalsAreTheRoundedSums ==
    (nutOut.called /\ nutOut.raised = "")
        => /\ Len(nutOut.totals) = 1
           /\ DOMAIN nutOut.totals[1]
                 = {"calories", "protein", "carbs", "fat", "sugar", "sodium", "fiber"}
           /\ \A key \in DOMAIN nutOut.totals[1] :
                 RoundedTo2(nutOut.totals[1][key], Contributions(nutNorm, 1, key))
           /\ (nutIn = <<>> => \A key \in DOMAIN nutOut.totals[1] : nutOut.totals[1][key] = 0)
           /\ (nutIn = <<Dict(PyStr(<<"f", "l", "o", "u", "r">>), PyInt(100), PyStr(<<"g">>))>>
                 => nutOut.totals[1]
                       = [calories |-> 36400, protein |-> 1000, carbs |-> 7600, fat |-> 100,
                          sugar |-> 30, sodium |-> 200, fiber |-> 270])

\* C15 witness: flour (100 g) and an egg-based entry were summed: 364 + 155 kcal
C15_Witness ==
    /\ nutOut.called
    /\ nutIn = <<Dict(PyStr(<<"f", "l", "o", "u", "r">>), PyInt(100), PyStr(<<"g">>)),
                 Dict(PyStr(<<"e", "g", "g">>), PyStr(<<"2">>), PyStr(<<"w", "h", "o", "l", "e">>))>>
    /\ nutOut.totals[1].calories = 36400 + 15500
    /\ nutOut.totals[1].fiber = 270

\* the units of the conversion table
KnownUnits == {UNIT_TO_GRAMS[i].unit : i \in 1..Len(UNIT_TO_GRAMS)}

\* the amount of the item can be converted to a number
Convertible(item) ==
    \/ item.kind = "str"
    \/ NoAmount(item)
    \/ item.amount.t \in {"int", "float"}
    \/ item.amount.t = "str" /\ item.amount.s \in {<<"2">>}

\* what the entries from..Len(normalised) are to give for a key: nothing for a name
\* without table key, the amount itself as grams for a unit outside the table
RECURSIVE Expected(_, _, _)
Expected(normalised, from, key) ==
    IF from > Len(normalised) THEN 0
    ELSE LET entry == normalised[from]
             hits == KeysIn(entry.name)
             profile == IF hits = {} THEN 0
                        ELSE ProfileOf(KeyOrder[CHOOSE i \in hits : \A j \in hits : i <= j])[key]
             grams == IF entry.unit \in KnownUnits
                      THEN ToGrams(entry.amount, entry.unit) ELSE entry.amount
         IN profile * grams + Expected(normalised, from + 1, key)

\* C16: a list whose amounts are all convertible never makes calculate_nutrition
\* raise, whatever its names and units; an entry whose name holds no table key
\* adds nothing, an entry whose unit is not in the table counts its amount as
\* grams, and the other entries are summed as usual
C16_UnknownNameOrUnitIsNoError ==
    (nutOut.called /\ \A i \in 1..Len(nutIn) : Convertible(nutIn[i]))
        => /\ nutOut.raised = ""
           /\ \A key \in DEFAULT_KEYS :
                 RoundedTo2(nutOut.totals[1][key], Expected(nutNorm, 1, key))
           /\ \A i \in 1..Len(nutIn) :
                 KeysIn(nutNorm[i].name) = {}
                    => nutOut.totals = CalculateNutrition(Without(nutIn, i)).totals

\* C16 witness: 50 smidge of flour counted as 50 g beside one cup of rum, which
\* added nothing
C16_Witness ==
    /\ nutOut.called
    /\ nutIn = <<Dict(PyStr(<<"f", "l", "o", "u", "r">>), PyInt(50),
                      PyStr(<<"s", "m", "i", "d", "g", "e">>)),
                 Dict(PyStr(<<"r", "u", "m">>), PyInt(1), PyStr(<<"c", "u", "p">>))>>
    /\ nutOut.raised = ""
    /\ nutOut.totals[1].calories = 18200
    /\ nutOut.totals[1].carbs = 3800

\* C17: a list with a record whose amount is a non-empty value that cannot be
\* converted to a number, first, last or alone, makes calculate_nutrition raise
\* the ValueError of float(): no totals are returned, not even those of the
\* entries before it
C17_UnconvertibleAmountRaises ==
    (nutOut.called /\ \E i \in 1..Len(nutIn) : ~Convertible(nutIn[i]))
        => /\ nutOut.raised = "ValueError"
           /\ nutOut.totals = <<>>
           /\ nutNorm = <<>>

\* C17 witness: 100 g of flour followed by '1/2' cup of milk raised
C17_Witness ==
    /\ nutOut.called
    /\ nutIn = <<Dict(PyStr(<<"f", "l", "o", "u", "r">>), PyInt(100), PyStr(<<"g">>)),
                 Dict(PyStr(<<"m", "i", "l", "k">>), PyStr(<<"1", "/", "2">>),
                      PyStr(<<"c", "u", "p">>))>>
    /\ nutOut.raised = "ValueError"
    /\ nutOut.totals = <<>>

\* C18: however the steps of two calls of calculate_nutrition interleave, each call
\* returns (or raises) exactly what its ingredient list gives when it runs alone,
\* so two calls with the same list return identical results; NUTRITION_DB and
\* UNIT_TO_GRAMS never change, and a step of one call changes nothing of the other
C18_CalculateNutritionIsPure ==
    /\ [](/\ nutrition_db = NUTRITION_DB
          /\ unit_to_grams = UNIT_TO_GRAMS
          /\ \A c \in Callers :
                /\ calls[c].at = "done"
                      => /\ CalculateNutrition(calls[c].in).raised = ""
                         /\ calls[c].out = CalculateNutrition(calls[c].in).totals
                /\ calls[c].at = "raised"
                      => /\ CalculateNutrition(calls[c].in).raised = "ValueError"
                         /\ calls[c].out = <<>>
          /\ \A c, d \in Callers :
                (/\ calls[c].in = calls[d].in
                 /\ calls[c].at \in {"done", "raised"}
                 /\ calls[d].at \in {"done", "raised"})
                    => calls[c].at = calls[d].at /\ calls[c].out = calls[d].out)
    /\ [][\A c, d \in Callers :
             (c # d /\ calls'[c] # calls[c]) => calls'[d] = calls[d]]_vars

\* C18 witness: two calls with the same two ingredients; the second returned
\* 557.5 kcal while the first was in the middle of its loop
C18_Witness ==
    /\ calls[1].in = <<Dict(PyStr(<<"f", "l", "o", "u", "r">>), PyInt(100), PyStr(<<"g">>)),
                       Bare(<<"S", "u", "g", "a", "r">>)>>
    /\ calls[2].in = calls[1].in
    /\ calls[1].at = "loop"
    /\ calls[1].pos = 2
    /\ calls[2].at = "done"
    /\ calls[2].out[1].calories = 55750

\* the text is a date written YYYY-MM-DD
WellFormedDate(chars) == chars \in {DateFeb1}

\* the field is given and is neither empty nor a well-formed date
Malformed(value) == value.t = "str" /\ value.s # <<>> /\ ~WellFormedDate(value.s)

\* the request reaches the parsing of a malformed date: a create request with a
\* name, or an update request for a stored meal plan
MalformedDateRequest ==
    /\ mpReq.body.json
    /\ Malformed(mpReq.body.start_date) \/ Malformed(mpReq.body.end_date)
    /\ \/ mpReq.op = "create" /\ Truthy(mpReq.body.name)
       \/ mpReq.op = "update" /\ \E i \in 1..Len(mpStore) : mpStore[i].id = mpReq.id

\* C19 as claimed: a create or update request with a malformed start_date or
\* end_date is answered 400 with the message about dates, and the stored meal
\* plans are unchanged
C19_MalformedDateIsAnswered400 ==
    /\ MalformedDateRequest => mpStore = StoredMealPlans
    /\ (mpPc = "responded" /\ MalformedDateRequest)
          => mpResponse = [status |-> 400, message |-> DatesMessage]

\* the payload has no title, or an empty one
TitleMissing ==
    \/ ~rcReq.body.json
    \/ rcReq.body.title.t \in {"absent", "none"}
    \/ rcReq.body.title.t = "str" /\ rcReq.body.title.s = <<>>

\* C20: with a payload whose title is missing or empty nothing is ever added to
\* the recipes, the ingredients or the nutrition records, and no object is even
\* prepared; create_recipe raises the error "'title' is a required field"; the API
\* answers 400, with that message when the body reaches create_recipe and with
\* "Request body must be JSON" when the body is empty
C20_MissingTitleIsRejected ==
    TitleMissing
        => /\ rcStore = StoredRecipes
           /\ rcObj = NothingPending
           /\ rcPc \in {"route", "create", "raised", "responded"}
           /\ rcPc = "raised" => rcError = "'title' is a required field"
           /\ rcPc = "responded"
                 => /\ rcResponse.status = 400
                    /\ rcResponse.message
                          = (IF NoRecipePayload(rcReq.body) THEN "Request body must be JSON"
                             ELSE "'title' is a required field")

\* C20 witness: a body with an empty title, an ingredient and nutrition was
\* answered 400 with the message, and the tables are as before
C20_Witness ==
    /\ rcPc = "responded"
    /\ rcReq.body.title = PyStr(<<>>)
    /\ Len(rcReq.body.ingredients.items) = 1
    /\ rcReq.body.nutrition.calories = PyInt(200)
    /\ rcResponse = [status |-> 400, message |-> "'title' is a required field"]
    /\ rcStore = StoredRecipes

(***************************************************************************)
(* Claims about the services called through one session                    *)
(***************************************************************************)
\* the meal plans as a lookup through the session returns them
SeenPlans == {p \in stPlans : ~\E d \in stDirty : d.id = p.id} \cup stDirty

\* the value a field has after an update: the one given, else the one it had
Given(value, old) == IF value.t = "absent" THEN old ELSE value

\* the step is a call of op that returned outcome
Returned(op, outcome) == stCalls' # stCalls /\ stLast'.op = op /\ stLast'.result = outcome

Associated(links, recipes, id, day, meal_type) ==
    LET Row(i) == links[i]
        Listed(i) == /\ Row(i).meal_plan_id = id /\ Row(i).day = day
                     /\ Row(i).meal_type = meal_type
                     /\ Row(i).recipe_id \in {r.id : r \in recipes}
        RECURSIVE UpTo(_)
        UpTo(n) == IF n = 0 THEN <<>>
                   ELSE IF Listed(n) THEN Append(UpTo(n - 1), Row(n).recipe_id)
                   ELSE UpTo(n - 1)
    IN UpTo(Len(links))

\* the keys of data["days"]
DayKeys == {Monday, Tuesday} \X {Dinner, Lunch}

\* C23: get_meal_plan_with_recipes(plan).days[d][m] lists exactly the recipes
\* associated with the plan under day d and meal type m; after a successful
\* add_recipe_to_meal_plan(plan, r, d, m) r is in days[d][m], after a successful
\* remove_recipe_from_meal_plan(plan, r, d, m) it is not, and the entries of the
\* other recipes, days, meal types and plans are as before.
C23_DaysListTheAssociatedRecipes ==
    /\ [](stLast.op = "get_with_recipes" =>
            \A key \in DayKeys :
                stDays[key] = Associated(stLinks, stRecipes, stLast.id, key[1], key[2]))
    /\ [][/\ Returned("add_recipe", "ok") =>
               \A id \in MealPlanIds : \A key \in DayKeys :
                   LET before == Associated(stLinks, stRecipes, id, key[1], key[2])
                       after == Associated(stLinks', stRecipes', id, key[1], key[2])
                   IN IF id = stLast'.id /\ key = <<stLast'.day, stLast'.meal_type>>
                      THEN after = Append(before, stLast'.recipe_id)
                      ELSE after = before
          /\ Returned("remove_recipe", "ok") =>
               \A id \in MealPlanIds : \A key \in DayKeys :
                   LET before == Associated(stLinks, stRecipes, id, key[1], key[2])
                       after == Associated(stLinks', stRecipes', id, key[1], key[2])
                   IN IF /\ id = stLast'.id
                         /\ stLast'.day \in {PyNone, key[1]}
                         /\ stLast'.meal_type \in {PyNone, key[2]}
                      THEN after = SelectSeq(before, LAMBDA r : r # stLast'.recipe_id)
                      ELSE after = before]_vars

\* recipe 1 was added to Tuesday's lunch of plan 1 and the plan was read: it is
\* listed there, and Monday's dinner still lists it
C23_Witness ==
    /\ stLast.op = "get_with_recipes" /\ stLast.id = 1
    /\ stDays[<<Tuesday, Lunch>>] = <<1>>
    /\ stDays[<<Monday, Dinner>>] = <<1>>
    /\ stDays[<<Monday, Lunch>>] = <<>>

\* C24: generate_pdf(recipe_id) sets the recipe's pdf_path and returns the path
\* exactly when the recipe exists and the renderer reports success; otherwise it
\* returns None and the stored pdf_path is as before.
C24_PdfPathIsSetOnlyOnSuccess ==
    [][(stCalls' # stCalls /\ stLast'.op = "generate_pdf") =>
          /\ stLast'.result \in {"path", "none"}
          /\ stLast'.result = "path" <=>
                 (stLast'.rendered /\ \E r \in stRecipes : r.id = stLast'.id)
          /\ stLast'.result = "path" =>
                 \E old \in stRecipes : \E new \in stRecipes' :
                     /\ old.id = stLast'.id /\ new.id = stLast'.id
                     /\ new.pdf_path.t = "str" /\ new.pdf_path.s # <<>>
                     /\ new.title = old.title /\ new.description = old.description
                     /\ stRecipes' \ {new} = stRecipes \ {old}
          /\ stLast'.result = "none" => stRecipes' = stRecipes]_vars

\* the PDF of recipe 1 was generated, then a second rendering failed: None is
\* returned and the path stored by the first call is still there
C24_Witness ==
    /\ stLast.op = "generate_pdf" /\ stLast.id = 1 /\ ~stLast.rendered
    /\ stLast.result = "none"
    /\ \E r \in stRecipes : r.id = 1 /\ r.pdf_path.t = "str"

\* C25: after any sequence of create_recipe, update_recipe and delete_recipe
\* calls every stored recipe has a non-empty title.
C25_EveryStoredRecipeHasATitle ==
    \A r \in stRecipes : r.title.t = "str" /\ r.title.s # <<>>

\* C26: when update_meal_plan raises for a malformed start_date or end_date no
\* field of the meal plan is changed, then or after later operations committed
\* through the same session: a stored field changes only in a successful
\* update_meal_plan of that plan whose payload has the field's key.
C26_FailedUpdateIsNeverPersisted ==
    [][/\ Returned("update_meal_plan", "raised") => stPlans' = stPlans
       /\ \A p \in stPlans : \A q \in stPlans' :
            (q.id = p.id /\ q # p) =>
                /\ Returned("update_meal_plan", "ok") /\ stLast'.id = p.id
                /\ q.name # p.name => stLast'.data.name = q.name
                /\ q.start_date # p.start_date => stLast'.data.start_date.t # "absent"
                /\ q.end_date # p.end_date => stLast'.data.end_date.t # "absent"]_vars

\* C27: after any sequence of add_recipe_to_meal_plan and
\* remove_recipe_from_meal_plan calls the association table holds at most one
\* row for each (meal plan, recipe, day, meal type): a second add of a row that
\* is there creates no duplicate and does not return as a success.
C27_OneRowPerEntry ==
    /\ [](\A i \in 1..Len(stLinks) : \A j \in 1..Len(stLinks) :
              stLinks[i] = stLinks[j] => i = j)
    /\ [][Returned("add_recipe", "ok") =>
            /\ ~\E i \in 1..Len(stLinks) :
                   /\ stLinks[i].meal_plan_id = stLast'.id
                   /\ stLinks[i].recipe_id = stLast'.recipe_id
                   /\ stLinks[i].day = stLast'.day
                   /\ stLinks[i].meal_type = stLast'.meal_type
            /\ Len(stLinks') = Len(stLinks) + 1]_vars

\* recipe 1 was added to Tuesday's dinner of plan 1 and a second add of the same
\* entry has raised: the table has the row once
C27_Witness ==
    /\ stLast.op = "add_recipe" /\ stLast.result = "raised"
    /\ stLast.id = 1 /\ stLast.recipe_id = 1
    /\ stLast.day = Tuesday /\ stLast.meal_type = Dinner
    /\ Cardinality({i \in 1..Len(stLinks) : stLinks[i].day = Tuesday}) = 1
    /\ stCalls = 2

(***************************************************************************)
(* Claims about the two views                                              *)
(***************************************************************************)
\* the step is a request to the view kind
Requested(kind) == wbRequests' # wbRequests /\ wbLast'.form.kind = kind

\* C28: when an add-to-new-meal-plan request fails (the name is missing, a date
\* is malformed, or the day or the meal type is missing) no meal plan is
\* created: the stored meal plans are those of before the request.
C28_FailedRequestCreatesNoMealPlan ==
    [][(Requested("new") /\ wbLast'.flash # "Meal plan created and recipe added.")
          => wbPlans' = wbPlans]_vars

\* the rows of shopping_list_items of a shopping list and an ingredient
ItemsOf(items, list, ingredient) ==
    {i \in 1..Len(items) : /\ items[i].shopping_list_id = list
                           /\ items[i].ingredient_id = ingredient}

\* the request added the recipe and asked for the shopping list
AddedWithList ==
    /\ Requested("add")
    /\ wbLast'.flash = "Recipe added to meal plan."
    /\ wbLast'.form.create_shopping_list = FormOn

\* C29: after any sequence of add-to-meal-plan requests with create_shopping_list
\* set each meal plan has at most one shopping list, each shopping list has at
\* most one item per ingredient, and the quantity of an item is the sum of the
\* ingredient's amount over the requests that added it (the amount at the first,
\* the amount more at each later one); a request that fails to add the recipe
\* changes no shopping list.
C29_OneListOneItemSummedQuantity ==
    /\ [](/\ \A i \in 1..Len(wbLists) : \A j \in 1..Len(wbLists) :
                wbLists[i].meal_plan_id = wbLists[j].meal_plan_id => i = j
          /\ \A i \in 1..Len(wbItems) : \A j \in 1..Len(wbItems) :
                (/\ wbItems[i].shopping_list_id = wbItems[j].shopping_list_id
                 /\ wbItems[i].ingredient_id = wbItems[j].ingredient_id) => i = j)
    /\ [][/\ AddedWithList =>
               LET plan == IF wbLast'.form.meal_plan_id = PyStr(<<"1">>) THEN 1 ELSE 2
                   given == WebRecipes[wbLast'.form.recipe_id]
               IN \E l \in 1..Len(wbLists') :
                     /\ wbLists'[l].meal_plan_id = plan
                     /\ \A k \in 1..Len(given) :
                          LET before == ItemsOf(wbItems, wbLists'[l].id, given[k].id)
                              after == ItemsOf(wbItems', wbLists'[l].id, given[k].id)
                          IN \E a \in after :
                                IF before = {} THEN wbItems'[a].quantity = given[k].amount
                                ELSE \E b \in before :
                                        IF given[k].amount.t = "none"
                                        THEN wbItems'[a].quantity = wbItems[b].quantity
                                        ELSE wbItems'[a].quantity =
                                               PyFloat(wbItems[b].quantity.n + given[k].amount.n)
                     /\ \A i \in 1..Len(wbItems) :
                          (\/ wbItems[i].shopping_list_id # wbLists'[l].id
                           \/ \A k \in 1..Len(given) : wbItems[i].ingredient_id # given[k].id)
                             => wbItems'[i] = wbItems[i]
          /\ (Requested("add") /\ ~AddedWithList) =>
               wbLists' = wbLists /\ wbItems' = wbItems]_vars

\* recipe 1 was added twice to meal plan 1 with the shopping list asked for: one
\* list, one item for each of the two ingredients, twice the amount 2.0 for the
\* first and no quantity for the second, which has no amount
C29_Witness ==
    /\ wbRequests = 2
    /\ Len(wbLinks) = 2
    /\ wbLists = <<ListRow(1, 1)>>
    /\ wbItems = <<ItemRow(1, 1, PyFloat(40)), ItemRow(1, 2, PyNone)>>

(***************************************************************************)
(* Claim about get_db_session                                              *)
(***************************************************************************)
\* C30: get_db_session makes at most 3 connection attempts: after each of the
\* first two failures with an operational or disconnection error it waits (1 s,
\* then 2 s), discards the cached engine, so that the next attempt builds a new
\* one, and retries; it returns the session of the first attempt that succeeds
\* and raises the error again after the third failure, so it always terminates.
C30_ThreeAttemptsThenAnAnswer ==
    /\ [](/\ dbAttempt \in {0, 1, 2}
          /\ dbSlept = CASE dbAttempt = 0 -> <<>>
                         [] dbAttempt = 1 -> <<1>>
                         [] OTHER -> <<1, 2>>
          /\ dbPc = "returned" => (dbSession # 0 /\ dbSession = dbEngine)
          /\ dbPc = "except" => dbError \in {"OperationalError", "DisconnectionError"})
    /\ [][/\ dbPc = "except" =>
               IF dbAttempt < 2
               THEN /\ dbPc' = "engine" /\ dbAttempt' = dbAttempt + 1
                    /\ dbEngine' = 0
                    /\ Len(dbSlept') = Len(dbSlept) + 1
               ELSE dbPc' = "raised" /\ dbError' = dbError /\ dbSlept' = dbSlept
          /\ (dbPc = "engine" /\ dbAttempt > 0) => (dbBuilt' = dbBuilt + 1 /\ dbEngine' = dbBuilt')
          /\ (dbPc # "returned" /\ dbPc' = "returned") => dbPc = "connect"
          /\ (dbPc # "raised" /\ dbPc' = "raised") =>
               (dbError' = "other" \/ (dbPc = "except" /\ dbAttempt = 2))]_vars
    /\ (dbPc \in {"engine", "connect", "except"}) ~> (dbPc \in {"returned", "raised"})

\* three attempts have failed, after waits of 1 s and 2 s and with a new engine
\* for each, and the error is raised
C30_Witness ==
    /\ dbPc = "raised" /\ dbAttempt = 2
    /\ dbSlept = <<1, 2>>
    /\ dbError = "DisconnectionError"
    /\ dbBuilt >= 3

====
